---- MODULE Spec2Model ----
(***************************************************************************)
(* Crawl engine of site_image_crawler: SimpleCrawlerService (fetch-based,  *)
(* server/services/simple-crawler.ts) and CrawlerService (Puppeteer-based, *)
(* server/services/crawler.ts) running against MemStorage.                 *)
(*                                                                         *)
(* Every async function is cut at its await points: one action is the      *)
(* synchronous code that runs when the awaited promise settles, up to the  *)
(* next await.  A call to a MemStorage method takes effect at the call     *)
(* (the method bodies contain no await), the await after it is a yield.    *)
(*                                                                         *)
(* routes.ts wires one of the two services; which one is fixed in the      *)
(* initial state (wired).  A behaviour holds up to two startCrawl          *)
(* invocations of SimpleCrawlerService, made for the same or for           *)
(* different job ids at any moment, and one of CrawlerService.             *)
(*                                                                         *)
(* Ten specifications: Spec (both services, pages with links and an        *)
(* <img>), SpecImages (SimpleCrawlerService on a job requested without CSS *)
(* backgrounds, pages that also hold a background-image declaration, an    *)
(* <img> with an unparseable src or a long markup), SpecTwoJobs (two jobs  *)
(* crawled at the same time), SpecLive (a crawl under weak fairness of its *)
(* own steps, with a server that may stop sending), SpecFrontier (the      *)
(* traversal loop alone, with the order of pushes and requests kept),      *)
(* SpecDecode (decodeHtmlEntities applied to a text and to its result),    *)
(* SpecTwoStarts (CrawlerService started twice for one job),               *)
(* SpecWideBudget (CrawlerService with maxPages up to MaxBudget + 1),      *)
(* SpecStreams (two clients of the progress stream of a job) and           *)
(* SpecOneStream (one client that stays connected, under weak fairness).   *)
(***************************************************************************)
EXTENDS Integers, Sequences, FiniteSets, TLC

\* ------------------------------------------------------------- bounds
MaxBudget == 2       \* largest maxPages a job is created with
MaxLinks == 2        \* most <a href> elements on one page
MaxText == 3         \* longest text handed to decodeHtmlEntities, in pieces

\* ------------------------------------------------------- URL strings
\* A URL string is modelled by its parts: org is the scheme://host:port
\* prefix ("" when the string is a relative reference, "?" when the string
\* cannot be parsed at all), path the path ("" when the string has none, as
\* in "https://a.example"), frag the fragment with its "#" ("" when absent).
Url(o, p, f) == [org |-> o, path |-> p, frag |-> f]

Origins == {"https://a", "https://b"}

NullUrl == Url("null", "", "")

\* String.prototype.toLowerCase on the paths that occur
\* (ToLowerCaseMut: the path is compared as it is written)
ToLowerCaseMut(p) == p

ToLowerCase(p) ==
    CASE p = "/B.PDF" -> "/b.pdf"
      [] OTHER -> p

\* pathname.endsWith(ext) for some ext of skipExtensions, on the paths that occur
EndsWithSkipExtension(p) == p \in {"/a.png", "/b.pdf"}

\* new URL(s): throws (ok = FALSE) unless s is an absolute URL; an empty
\* path is serialised as "/"
NewURL(s) ==
    IF s.org \in Origins
    THEN [ok |-> TRUE, origin |-> s.org,
          pathname |-> IF s.path = "" THEN "/" ELSE s.path, hash |-> s.frag]
    ELSE [ok |-> FALSE, origin |-> "", pathname |-> "", hash |-> ""]

\* new URL(s, base): the base is parsed first; an absolute s replaces it, a
\* relative reference takes the base's origin, and the base's path too when
\* it has no path of its own
NewURLWithBase(s, base) ==
    LET b == NewURL(base)
    IN  IF ~b.ok THEN b
        ELSE IF s.org \in Origins THEN NewURL(s)
        ELSE IF s.org = ""
        THEN [ok |-> TRUE, origin |-> b.origin,
              pathname |-> IF s.path = "" THEN b.pathname ELSE s.path,
              hash |-> s.frag]
        ELSE [ok |-> FALSE, origin |-> "", pathname |-> "", hash |-> ""]

\* URL.prototype.toString (the name ToString is taken by module TLC)
UrlToString(u) == Url(u.origin, u.pathname, u.hash)

\* SimpleCrawlerService.resolveUrl: the input is returned when resolution throws
resolveUrl(url, baseUrl) ==
    LET u == NewURLWithBase(url, baseUrl)
    IN  IF u.ok THEN UrlToString(u) ELSE url

\* The page an HTTP GET of string s asks for: the fragment is not sent and
\* an empty path is requested as "/"
PageOf(s) == LET u == NewURL(s) IN Url(u.origin, u.pathname, "")

\* ------------------------------------------------------------- pages
\* The strings that occur as href / src / srcset / url(...) values
RootRef == Url("", "/", "")
Hrefs ==
    { RootRef,                          \* "/"
      Url("", "/p1", "#s"),             \* "/p1#s"
      Url("https://b", "/p1", ""),      \* a link to another origin
      Url("", "/a.png", "") }           \* a link to an image file

\* An image-bearing element of a page: tag is "img", "source" (inside a
\* <picture>) or "css" (a background-image declaration)
ImgElems == { [tag |-> "img", src |-> Url("", "/a.png", ""), alt |-> "hi"] }

\* The image-bearing elements of one page, in document order
ImgLists == {<<>>} \cup { <<e>> : e \in ImgElems }

SeqsUpTo(S, n) == UNION { [1..k -> S] : k \in 0..n }

\* The response bodies a server may send
Htmls == [links : SeqsUpTo(Hrefs, MaxLinks), imgs : ImgLists]

\* The targetUrl values a job is created with
TargetUrls ==
    { Url("https://a", "", ""),         \* "https://a"
      Url("https://a", "/", ""),        \* "https://a/"
      Url("?", "", "") }                \* not a URL

\* ----------------------------------------------------- link extraction
\* extractLinks, the origin test (SameOriginMut: the test left out)
SameOriginMut(u, baseUrl) == TRUE
SameOrigin(u, baseUrl) == u.origin = baseUrl

\* extractLinks, the body of the while loop for one <a href> match:
\* <<>> when the link is dropped, <<cleanUrl>> when it is pushed
LinkOf(href, currentUrl, baseUrl) ==
    LET absoluteUrl == resolveUrl(href, currentUrl)
        url == NewURL(absoluteUrl)
        cleanUrl == UrlToString([url EXCEPT !.hash = ""])
        pathname == ToLowerCase(url.pathname)
    IN  IF ~url.ok THEN <<>>
        ELSE IF ~SameOrigin(url, baseUrl) THEN <<>>
        ELSE IF EndsWithSkipExtension(pathname) THEN <<>>
        ELSE <<cleanUrl>>

RECURSIVE extractLinks(_, _, _)
extractLinks(hrefs, currentUrl, baseUrl) ==
    IF hrefs = <<>> THEN <<>>
    ELSE LinkOf(Head(hrefs), currentUrl, baseUrl)
           \o extractLinks(Tail(hrefs), currentUrl, baseUrl)

InSeq(x, s) == \E i \in 1..Len(s) : s[i] = x

\* Whether one of the <a href> values of a page leads to another origin
\* than origin when resolved against the URL of the page
HasForeignLink(hrefs, currentUrl, origin) ==
    \E i \in 1..Len(hrefs) :
        LET u == NewURLWithBase(hrefs[i], currentUrl)
        IN  u.ok /\ u.origin # origin

\* What a step that reads the links of a page reports
LinksOutcome(hrefs, currentUrl, origin) ==
    IF HasForeignLink(hrefs, currentUrl, origin) THEN "foreign link" ELSE "links"

\* performSimpleCrawl, the loop that pushes the new links
\* (EnqueueFront: new links go to the front of the queue;
\* EnqueueQueued: a link already in the queue is pushed again)
RECURSIVE EnqueueFront(_, _, _)
EnqueueFront(urlsToVisit, visitedUrls, newUrls) ==
    IF newUrls = <<>> THEN urlsToVisit
    ELSE LET url == Head(newUrls)
         IN  EnqueueFront(IF url \notin visitedUrls /\ ~(\E i \in 1..Len(urlsToVisit) :
                                                            urlsToVisit[i] = url)
                          THEN <<url>> \o urlsToVisit ELSE urlsToVisit,
                          visitedUrls, Tail(newUrls))

RECURSIVE EnqueueQueued(_, _, _)
EnqueueQueued(urlsToVisit, visitedUrls, newUrls) ==
    IF newUrls = <<>> THEN urlsToVisit
    ELSE LET url == Head(newUrls)
         IN  EnqueueQueued(IF url \notin visitedUrls
                           THEN Append(urlsToVisit, url) ELSE urlsToVisit,
                           visitedUrls, Tail(newUrls))

RECURSIVE Enqueue(_, _, _)
Enqueue(urlsToVisit, visitedUrls, newUrls) ==
    IF newUrls = <<>> THEN urlsToVisit
    ELSE LET url == Head(newUrls)
         IN  Enqueue(IF url \notin visitedUrls /\ ~InSeq(url, urlsToVisit)
                     THEN Append(urlsToVisit, url) ELSE urlsToVisit,
                     visitedUrls, Tail(newUrls))

\* ---------------------------------------------------- image extraction
\* The markup of an image-bearing element as the page holds it.  A short
\* tag on one line is named by its kind ("img", "source", "css"); "imgLong"
\* is an <img> tag of 500 characters that runs over two lines.
Markup(e) == IF "html" \in DOMAIN e THEN e.html ELSE e.tag

\* html.replace(/\n|\r/g, ' ')
CollapseNewlines(html) ==
    CASE html = "imgLong" -> "imgLongOneLine"
      [] html = "imgLongCut" -> "imgCut"
      [] OTHER -> html

\* html.slice(0, 400)
Slice400(html) ==
    CASE html = "imgLong" -> "imgLongCut"
      [] html = "imgLongOneLine" -> "imgCut"
      [] OTHER -> html

\* html.length
MarkupLength(html) ==
    CASE html \in {"imgLong", "imgLongOneLine"} -> 500
      [] html \in {"imgLongCut", "imgCut"} -> 400
      [] OTHER -> 27

\* Whether html holds a newline or a carriage return
HasNewline(html) == html \in {"imgLong", "imgLongCut"}

\* One candidate of extractImages.  The src values above contain no entity
\* spelling and no "/_next/image" path, so fixNextJsImageUrl and
\* decodeHtmlEntities leave the resolved URL as it is.
Candidate(e, baseUrl) ==
    [imageUrl |-> resolveUrl(e.src, baseUrl),
     altText |-> IF e.tag = "img" THEN e.alt ELSE "", html |-> Markup(e)]

RECURSIVE CandidatesOf(_, _, _)
CandidatesOf(imgs, tag, baseUrl) ==
    IF imgs = <<>> THEN <<>>
    ELSE (IF Head(imgs).tag = tag THEN <<Candidate(Head(imgs), baseUrl)>> ELSE <<>>)
           \o CandidatesOf(Tail(imgs), tag, baseUrl)

\* extractImages: the <img> tags, then the <source> tags, then the
\* background-image declarations when asked for
extractImages(html, baseUrl, includeCssBackgrounds) ==
    CandidatesOf(html.imgs, "img", baseUrl)
      \o CandidatesOf(html.imgs, "source", baseUrl)
      \o (IF includeCssBackgrounds THEN CandidatesOf(html.imgs, "css", baseUrl) ELSE <<>>)

\* ----------------------------------------------------- entity decoding
\* A text is a sequence of pieces: "&", the rest of an entity spelling
\* ("amp;" after "&" spells "&amp;"), or another character
EntityTails == {"amp;", "lt;", "gt;", "quot;", "#39;", "nbsp;"}
Pieces == {"&", "x"} \cup EntityTails
Texts == SeqsUpTo(Pieces, MaxText)

\* String.prototype.replace(/&tail/g, char): the matches are found from left
\* to right in the text as it is, and what was put in is not looked at again
RECURSIVE ReplaceAll(_, _, _)
ReplaceAll(text, tail, char) ==
    IF Len(text) < 2 THEN text
    ELSE IF text[1] = "&" /\ text[2] = tail
         THEN <<char>> \o ReplaceAll(SubSeq(text, 3, Len(text)), tail, char)
         ELSE <<text[1]>> \o ReplaceAll(Tail(text), tail, char)

\* SimpleCrawlerService.decodeHtmlEntities: six replacements in a row
decodeHtmlEntities(text) ==
    ReplaceAll(ReplaceAll(ReplaceAll(ReplaceAll(ReplaceAll(ReplaceAll(
        text, "amp;", "&"), "lt;", "<"), "gt;", ">"), "quot;", "\""), "#39;", "'"),
        "nbsp;", " ")

\* ------------------------------------------------------------ storage
JobIds == {"j1", "j0"}       \* j1 is created at submission, j0 never is
NoJob == [status |-> "absent"]

\* x || d of JavaScript for the strings used here
OrElse(x, d) == IF x = "" THEN d ELSE x

\* MemStorage.createCrawlJob
createCrawlJob(insertJob) ==
    [targetUrl |-> insertJob.targetUrl,
     maxPages |-> insertJob.maxPages,
     includeCssBackgrounds |-> (insertJob.includeCssBackgrounds \/ TRUE),
     status |-> "pending", progress |-> 0, pagesProcessed |-> 0,
     totalPagesFound |-> 0, imagesFound |-> 0, currentPage |-> NullUrl,
     error |-> "null", completedAt |-> "null"]

\* MemStorage.updateCrawlJob: { ...job, ...updates }, nothing for an unknown id
\* (updateCrawlJobMut: the updates are applied to every stored job)
updateCrawlJobMut(js, id, updates) ==
    [k \in DOMAIN js |->
        IF js[k] = NoJob THEN js[k]
        ELSE [f \in DOMAIN js[k] |->
                IF f \in DOMAIN updates THEN updates[f] ELSE js[k][f]]]

updateCrawlJob(js, id, updates) ==
    IF js[id] = NoJob THEN js
    ELSE [js EXCEPT ![id] =
            [f \in DOMAIN js[id] |->
                IF f \in DOMAIN updates THEN updates[f] ELSE js[id][f]]]

\* MemStorage.createCrawledImage
createCrawledImage(imgs, insertImage) ==
    Append(imgs, [jobId |-> insertImage.jobId,
                  pageUrl |-> insertImage.pageUrl,
                  imageUrl |-> insertImage.imageUrl,
                  altText |-> OrElse(insertImage.altText, "null"),
                  imgTagHtml |-> OrElse(insertImage.imgTagHtml, "null")])

\* Math.round(n / d * 100): the nearest integer, halves upward
RoundPercent(n, d) == (200 * n + d) \div (2 * d)

\* -------------------------------------------------------------- state
VARIABLES
    wired,              \* the service routes.ts calls: "simple" or "puppeteer"
    jobs,               \* MemStorage.crawlJobs: job id -> CrawlJob, NoJob when absent
    crawledImages,      \* MemStorage.crawledImages, in insertion order
    activeJobs,         \* SimpleCrawlerService.activeJobs
    activeCrawls,       \* CrawlerService.activeCrawls
    progressListeners,  \* SimpleCrawlerService.progressListeners
    crawls,             \* per startCrawl invocation: where it stands and its locals
    started,            \* number of startCrawl invocations made so far
    emitted,            \* per job id, the snapshots passed to emitProgress by
                        \* the latest step of a crawl, in order
    event,              \* the latest step of a crawl: [call, step, outcome]
    decoding,           \* a text handed to decodeHtmlEntities and the results
                        \* of the successive applications: [input, outputs]
    streams,            \* per subscriber of GET /api/crawl/:id/progress: the
                        \* job it asked for, the status of the initial message
                        \* still to be written, and the status values of the
                        \* messages written to its response
    frontier            \* the traversal loop of performSimpleCrawl taken alone:
                        \* its queue, visited set and counter, with the order
                        \* in which URLs were pushed and requested

vars == <<wired, jobs, crawledImages, activeJobs, activeCrawls, progressListeners, crawls,
          started, emitted, event, streams, decoding, frontier>>

\* The startCrawl invocations of one behaviour, in the order they are made
Calls == {1, 2}

\* maxRetries of performSimpleCrawl (maxRetriesMut: one retry more)
maxRetriesMut == 2 + 1
maxRetries == 2

ListenedJobs == {"j1"}      \* the job ids a progress stream is opened for
NoListener == "none"
Listeners == {"sendProgress", "throws"}   \* "throws" raises an exception when called

\* An invocation that has not been made yet.  images is what extractImages
\* returned for the page whose text has arrived, next the index of the image
\* whose createCrawledImage call is awaited.  The fields after error are
\* bookkeeping of the model: requests counts the HTTP requests issued for
\* currentUrl, onlyTimeouts tells that every attempt for it so far that
\* failed was a timeout (both are kept until the next URL is dequeued),
\* saved counts the image records created for it,
\* fetched is the set of pages whose retry loop was entered, refetched tells
\* that the retry loop was entered for a page already in fetched, browser is
\* the state of the browser launched by CrawlerService.performCrawl, result
\* is how startCrawl ended.  A local that is not read again is put back to its
\* initial value.
IdleCall ==
    [pc |-> "idle", jobId |-> "none", job |-> NoJob,
     visitedUrls |-> {}, urlsToVisit |-> <<>>, totalImages |-> 0,
     pagesProcessed |-> 0, baseUrl |-> "", currentUrl |-> NullUrl,
     retryCount |-> 0, pageSuccess |-> FALSE, delay |-> 0,
     images |-> <<>>, next |-> 0, error |-> "null",
     requests |-> 0, onlyTimeouts |-> TRUE, saved |-> 0,
     fetched |-> {}, refetched |-> FALSE, browser |-> "none",
     result |-> "none"]

DoneCall(j, r) == [IdleCall EXCEPT !.pc = "done", !.jobId = j, !.result = r]

Event(c, step, outcome) == [call |-> c, step |-> step, outcome |-> outcome]

\* The clients that may open a progress stream, and a client that has not
Subscribers == {"A", "B"}
NoStream == [pc |-> "none", jobId |-> "none", initial |-> "none", received |-> {}]
NoStreams == [s \in Subscribers |-> NoStream]

\* No traversal loop is looked at alone
NoFrontier == [pc |-> "none"]

\* No text is being decoded
NoText == [input |-> <<>>, outputs |-> <<>>]

Init ==
    /\ wired \in {"simple", "puppeteer"}
    /\ \E t \in TargetUrls, m \in 1..MaxBudget, css \in BOOLEAN :
         jobs = [j \in JobIds |->
                   IF j = "j1"
                   THEN createCrawlJob([targetUrl |-> t, maxPages |-> m,
                                        includeCssBackgrounds |-> css])
                   ELSE NoJob]
    /\ crawledImages = <<>>
    /\ activeJobs = [j \in JobIds |-> FALSE]
    /\ activeCrawls = [j \in JobIds |-> FALSE]
    /\ progressListeners = [j \in JobIds |-> NoListener]
    /\ crawls = [c \in Calls |-> IdleCall]
    /\ started = 0
    /\ streams = NoStreams
    /\ emitted = [j \in JobIds |-> <<>>]
    /\ event = Event(0, "none", "none")
    /\ decoding = NoText
    /\ frontier = NoFrontier

\* ---------------------------------------- SimpleCrawlerService, helpers
\* startCrawl, the guard `if (this.activeJobs.get(jobId)) return`
\* (IsActiveMut: a guard that never holds)
IsActiveMut(j) == FALSE
IsActive(j) == activeJobs[j]

\* emitProgress: whether the registered listener raises an exception
\* (EmitThrowsMut: a listener registered earlier is called as well)
EmitThrowsMut(j) == progressListeners[j] # NoListener

EmitThrows(j) == progressListeners[j] = "throws"

\* performSimpleCrawl, the condition of the traversal loop
\* (LoopContinuesMut: `<=` in place of `<`)
LoopContinuesMut(st) == Len(st.urlsToVisit) > 0 /\ st.pagesProcessed <= st.job.maxPages
LoopContinues(st) == Len(st.urlsToVisit) > 0 /\ st.pagesProcessed < st.job.maxPages

\* startCrawl, the update of the catch block
\* (FailedUpdateMut: the message is not stored)
FailedUpdateMut(msg) == [status |-> "failed", error |-> "null", completedAt |-> "date"]
FailedUpdate(msg) == [status |-> "failed", error |-> msg, completedAt |-> "date"]

\* startCrawl, the snapshot of the catch block
FailedSnap(msg) ==
    [status |-> "failed", progress |-> 0, pagesProcessed |-> 0,
     totalPagesFound |-> 0, imagesFound |-> 0, currentPage |-> NullUrl,
     error |-> msg]

\* performSimpleCrawl, the update after the loop
CompletedUpdate(st) ==
    [status |-> "completed", progress |-> 100,
     pagesProcessed |-> st.pagesProcessed,
     totalPagesFound |-> Cardinality(st.visitedUrls),
     imagesFound |-> st.totalImages, currentPage |-> NullUrl,
     completedAt |-> "date"]

\* performSimpleCrawl, the snapshot after the loop
CompletedSnap(st) ==
    [status |-> "completed", progress |-> 100,
     pagesProcessed |-> st.pagesProcessed,
     totalPagesFound |-> Cardinality(st.visitedUrls),
     imagesFound |-> st.totalImages, currentPage |-> NullUrl, error |-> "null"]

\* performSimpleCrawl, the snapshot emitted when a URL is dequeued
RunningSnap(st) ==
    [status |-> "running",
     progress |-> RoundPercent(st.pagesProcessed, st.job.maxPages),
     pagesProcessed |-> st.pagesProcessed,
     totalPagesFound |-> Cardinality(st.visitedUrls) + Len(st.urlsToVisit),
     imagesFound |-> st.totalImages, currentPage |-> st.currentUrl,
     error |-> "null"]

\* performSimpleCrawl, the update after a page was processed
\* (ProgressUpdateMut: totalPagesFound counts the queue alone)
ProgressUpdateMut(st) ==
    [progress |-> RoundPercent(st.pagesProcessed, st.job.maxPages),
     pagesProcessed |-> st.pagesProcessed,
     totalPagesFound |-> Len(st.urlsToVisit),
     imagesFound |-> st.totalImages, currentPage |-> st.currentUrl]

ProgressUpdate(st) ==
    [progress |-> RoundPercent(st.pagesProcessed, st.job.maxPages),
     pagesProcessed |-> st.pagesProcessed,
     totalPagesFound |-> Cardinality(st.visitedUrls) + Len(st.urlsToVisit),
     imagesFound |-> st.totalImages, currentPage |-> st.currentUrl]

\* An exception reaches the catch block of startCrawl: the block runs up to
\* the await of its updateCrawlJob call
Caught(c, st, msg) ==
    /\ jobs' = updateCrawlJob(jobs, st.jobId, FailedUpdate(msg))
    /\ crawls' = [crawls EXCEPT ![c] =
         [IdleCall EXCEPT !.pc = "catch", !.jobId = st.jobId, !.job = st.job,
                          !.pagesProcessed = st.pagesProcessed, !.error = msg]]

\* The fetch call of one attempt
IssueFetch(st) == [st EXCEPT !.pc = "fetch", !.requests = @ + 1]

\* sendProgress of routes.ts, registered by subscriber s, is called with
\* each snapshot of snaps: a message is written to the response of s
\* (DeliveredMut: nothing is written)
DeliveredMut(s, snaps) == streams

Delivered(s, snaps) ==
    [streams EXCEPT ![s].received =
        @ \cup { snaps[i].status : i \in 1..Len(snaps) }]

\* emitProgress was called with the snapshots of sequence snaps in this
\* step: the listener registered for the job, if any, was called with each
Emits(j, snaps) ==
    /\ emitted' = [i \in JobIds |-> IF i = j THEN snaps ELSE <<>>]
    /\ streams' = IF j \in JobIds /\ progressListeners[j] \in Subscribers
                  THEN Delivered(progressListeners[j], snaps)
                  ELSE streams
EmitsNothing ==
    /\ emitted' = [i \in JobIds |-> <<>>]
    /\ streams' = streams

\* The head of the traversal loop, entered with locals st after the step
\* has emitted the snapshots pre: the loop ends (the completed update is
\* made) or the next URL not yet visited is dequeued, announced and requested
RECURSIVE LoopHead(_, _, _)
LoopHead(c, st, pre) ==
    IF LoopContinues(st)
    THEN LET currentUrl == Head(st.urlsToVisit)
             rest == [st EXCEPT !.urlsToVisit = Tail(@)]
         IN  IF currentUrl \in st.visitedUrls
             THEN LoopHead(c, rest, pre)
             ELSE LET st1 == [rest EXCEPT !.visitedUrls = @ \cup {currentUrl},
                                          !.currentUrl = currentUrl,
                                          !.retryCount = 0, !.pageSuccess = FALSE,
                                          !.requests = 0, !.onlyTimeouts = TRUE,
                                          !.saved = 0, !.delay = 0]
                  IN  /\ Emits(st.jobId, Append(pre, RunningSnap(st1)))
                      /\ IF EmitThrows(st.jobId)
                         THEN Caught(c, st1, "listener failed")
                         ELSE /\ jobs' = jobs
                              /\ crawls' = [crawls EXCEPT ![c] =
                                   IssueFetch([st1 EXCEPT
                                       !.fetched = @ \cup {PageOf(currentUrl)},
                                       !.refetched = @ \/ PageOf(currentUrl) \in st.fetched])]
    ELSE /\ jobs' = updateCrawlJob(jobs, st.jobId, CompletedUpdate(st))
         /\ crawls' = [crawls EXCEPT ![c] =
              [st EXCEPT !.pc = "completed", !.currentUrl = NullUrl,
                         !.retryCount = 0, !.pageSuccess = FALSE, !.delay = 0]]
         /\ Emits(st.jobId, pre)

\* One attempt failed: another attempt after a delay, or the page is given up
\* (AttemptFailedThrows: giving up throws out of the loop;
\* AttemptFailedCounts: a page given up is counted as processed;
\* AttemptFailedFlat: the delay does not grow with the retry number)
AttemptFailedFlat(c, st, base) ==
    IF st.retryCount < maxRetries
    THEN /\ crawls' = [crawls EXCEPT ![c] =
              [st EXCEPT !.retryCount = @ + 1, !.delay = base, !.pc = "backoff"]]
         /\ UNCHANGED jobs
         /\ EmitsNothing
    ELSE LoopHead(c, st, <<>>)

AttemptFailedThrows(c, st, base) ==
    IF st.retryCount < maxRetries
    THEN /\ crawls' = [crawls EXCEPT ![c] =
              [st EXCEPT !.retryCount = @ + 1, !.delay = base * (st.retryCount + 1),
                         !.pc = "backoff"]]
         /\ UNCHANGED jobs
         /\ EmitsNothing
    ELSE Caught(c, st, "fetch failed") /\ EmitsNothing

AttemptFailedCounts(c, st, base) ==
    IF st.retryCount < maxRetries
    THEN /\ crawls' = [crawls EXCEPT ![c] =
              [st EXCEPT !.retryCount = @ + 1, !.delay = base * (st.retryCount + 1),
                         !.pc = "backoff"]]
         /\ UNCHANGED jobs
         /\ EmitsNothing
    ELSE LoopHead(c, [st EXCEPT !.pagesProcessed = @ + 1], <<>>)

AttemptFailed(c, st, base) ==
    IF st.retryCount < maxRetries
    THEN /\ crawls' = [crawls EXCEPT ![c] =
              [st EXCEPT !.retryCount = @ + 1, !.delay = base * (st.retryCount + 1),
                         !.pc = "backoff"]]
         /\ UNCHANGED jobs
         /\ EmitsNothing
    ELSE LoopHead(c, st, <<>>)

\* The code after the loop that saves the images of a page, up to the await
\* of the progress update; links are the <a href> values of the page
AfterImages(c, st, links) ==
    LET newUrls == extractLinks(links, st.currentUrl, st.baseUrl)
        st1 == [st EXCEPT !.totalImages = @ + Len(st.images),
                          !.urlsToVisit = Enqueue(@, st.visitedUrls, newUrls),
                          !.pagesProcessed = @ + 1,
                          !.pageSuccess = TRUE,
                          !.images = <<>>, !.next = 0, !.delay = 0,
                          !.pc = "progress"]
    IN  /\ jobs' = updateCrawlJob(jobs, st.jobId, ProgressUpdate(st1))
        /\ crawls' = [crawls EXCEPT ![c] = st1]
        /\ EmitsNothing

\* The createCrawledImage call for candidate number i of the page
\* (SaveImageMut: the call is left out)
SaveImageMut(st, i) == crawledImages

SaveImage(st, i) ==
    createCrawledImage(crawledImages,
        [jobId |-> st.jobId, pageUrl |-> st.currentUrl,
         imageUrl |-> st.images[i].imageUrl, altText |-> st.images[i].altText,
         imgTagHtml |-> st.images[i].html])

\* ---------------------------------------- SimpleCrawlerService, steps
\* startCrawl up to its first await (getCrawlJob has read the job by then)
StartCrawl(c, j) ==
    /\ wired = "simple"
    /\ crawls[c].pc = "idle"
    /\ c = started + 1
    /\ started' = c
    /\ event' = Event(c, "StartCrawl", IF IsActive(j) THEN "active" ELSE "started")
    /\ IF IsActive(j)
       THEN /\ crawls' = [crawls EXCEPT ![c] = DoneCall(j, "returned")]
            /\ UNCHANGED activeJobs
       ELSE /\ activeJobs' = [activeJobs EXCEPT ![j] = TRUE]
            /\ crawls' = [crawls EXCEPT ![c] =
                 [IdleCall EXCEPT !.pc = "getCrawlJob", !.jobId = j,
                    !.job = IF jobs[j] = NoJob THEN NoJob
                            ELSE [targetUrl |-> jobs[j].targetUrl,
                                  maxPages |-> jobs[j].maxPages,
                                  includeCssBackgrounds |-> jobs[j].includeCssBackgrounds]]]
    /\ EmitsNothing
    /\ UNCHANGED <<wired, decoding, frontier, activeCrawls, jobs, crawledImages, progressListeners>>

\* startCrawl resumes with the job: `Job not found` is thrown and caught, or
\* performSimpleCrawl runs up to the await of its `running` update
GetCrawlJobDone(c) ==
    LET st == crawls[c]
    IN  /\ st.pc = "getCrawlJob"
        /\ IF st.job = NoJob
           THEN /\ Caught(c, st, "Job not found")
                /\ event' = Event(c, "GetCrawlJobDone", "not found")
           ELSE /\ jobs' = updateCrawlJob(jobs, st.jobId, [status |-> "running"])
                /\ crawls' = [crawls EXCEPT ![c] = [st EXCEPT !.pc = "running"]]
                /\ event' = Event(c, "GetCrawlJobDone", "found")
        /\ EmitsNothing
        /\ UNCHANGED <<wired, decoding, frontier, activeCrawls, crawledImages, activeJobs, progressListeners, started>>

\* performSimpleCrawl resumes after the `running` update: the locals are
\* set up (new URL(job.targetUrl) may throw), the first snapshot is emitted
\* and the loop is entered
CrawlBegin(c) ==
    LET st == crawls[c]
        seed == NewURL(st.job.targetUrl)
        st1 == [st EXCEPT !.urlsToVisit = <<st.job.targetUrl>>,
                          !.baseUrl = seed.origin]
        first == [status |-> "running", progress |-> 0, pagesProcessed |-> 0,
                  totalPagesFound |-> 1, imagesFound |-> 0,
                  currentPage |-> st.job.targetUrl, error |-> "null"]
    IN  /\ st.pc = "running"
        /\ IF ~seed.ok
           THEN /\ Caught(c, st, "Invalid URL")
                /\ EmitsNothing
                /\ event' = Event(c, "CrawlBegin", "invalid seed")
           ELSE IF EmitThrows(st.jobId)
           THEN /\ Caught(c, st1, "listener failed")
                /\ Emits(st.jobId, <<first>>)
                /\ event' = Event(c, "CrawlBegin", "listener failed")
           ELSE /\ LoopHead(c, st1, <<first>>)
                /\ event' = Event(c, "CrawlBegin", "entered")
        /\ UNCHANGED <<wired, decoding, frontier, activeCrawls, crawledImages, activeJobs, progressListeners, started>>

\* The promise of fetch settles: a response with a 2xx status ("ok"), a
\* response with another status ("status"), the abort of the timeout
\* ("abort"), or any other rejection ("error")
FetchDone(c, outcome) ==
    LET st == crawls[c]
    IN  /\ st.pc = "fetch"
        /\ event' = Event(c, "FetchDone", outcome)
        /\ CASE outcome = "ok" ->
                  /\ crawls' = [crawls EXCEPT ![c] = [st EXCEPT !.pc = "text"]]
                  /\ UNCHANGED jobs
                  /\ EmitsNothing
             [] outcome = "status" ->
                  AttemptFailed(c, [st EXCEPT !.onlyTimeouts = FALSE], 1000)
             [] outcome = "abort" -> AttemptFailed(c, st, 2000)
             [] outcome = "error" ->
                  AttemptFailed(c, [st EXCEPT !.onlyTimeouts = FALSE], 1000)
        /\ UNCHANGED <<wired, decoding, frontier, activeCrawls, crawledImages, activeJobs, progressListeners, started>>

\* The promise of response.text() is fulfilled with html: the images are
\* extracted and the first one is handed to the store, or, without images,
\* the page is finished.  The code reads the links of html only after the
\* last image is saved; where images are saved the model draws the links at
\* that later step (ImageSaved), which yields the same behaviours with fewer
\* states in between.
TextDone(c, html) ==
    LET st == crawls[c]
        images == extractImages(html, st.currentUrl, st.job.includeCssBackgrounds)
        st1 == [st EXCEPT !.images = images]
    IN  /\ st.pc = "text"
        /\ html.imgs # <<>> => html.links = <<>>
        /\ event' = Event(c, "TextDone",
                          IF images = <<>>
                          THEN LinksOutcome(html.links, st.currentUrl, st.baseUrl)
                          ELSE "images")
        /\ IF images = <<>>
           THEN /\ AfterImages(c, st1, html.links)
                /\ UNCHANGED crawledImages
           ELSE /\ crawledImages' = SaveImage(st1, 1)
                /\ crawls' = [crawls EXCEPT ![c] =
                     [st1 EXCEPT !.pc = "saveImage", !.next = 1, !.saved = @ + 1]]
                /\ UNCHANGED jobs
                /\ EmitsNothing
        /\ UNCHANGED <<wired, decoding, frontier, activeCrawls, activeJobs, progressListeners, started>>

\* The promise of response.text() is rejected (the connection broke while
\* the body was read): the outer catch of the retry loop
TextFailed(c) ==
    LET st == crawls[c]
    IN  /\ st.pc = "text"
        /\ event' = Event(c, "TextFailed", "error")
        /\ AttemptFailed(c, [st EXCEPT !.onlyTimeouts = FALSE], 1000)
        /\ UNCHANGED <<wired, decoding, frontier, activeCrawls, crawledImages, activeJobs, progressListeners, started>>

\* A createCrawledImage call has resolved: the next image, or the rest of
\* the page, whose links are links
ImageSaved(c, links) ==
    LET st == crawls[c]
    IN  /\ st.pc = "saveImage"
        /\ event' = Event(c, "ImageSaved",
                          IF st.next < Len(st.images) THEN "saved"
                          ELSE LinksOutcome(links, st.currentUrl, st.baseUrl))
        /\ IF st.next < Len(st.images)
           THEN /\ links = <<>>
                /\ crawledImages' = SaveImage(st, st.next + 1)
                /\ crawls' = [crawls EXCEPT ![c] =
                     [st EXCEPT !.next = @ + 1, !.saved = @ + 1]]
                /\ UNCHANGED jobs
                /\ EmitsNothing
           ELSE /\ AfterImages(c, st, links)
                /\ UNCHANGED crawledImages
        /\ UNCHANGED <<wired, decoding, frontier, activeCrawls, activeJobs, progressListeners, started>>

\* The progress update has resolved: the retry loop ends, the traversal loop goes on
ProgressSaved(c) ==
    LET st == crawls[c]
    IN  /\ st.pc = "progress"
        /\ event' = Event(c, "ProgressSaved", "saved")
        /\ LoopHead(c, st, <<>>)
        /\ UNCHANGED <<wired, decoding, frontier, activeCrawls, crawledImages, activeJobs, progressListeners, started>>

\* The delay before a retry has passed: the next attempt
BackoffDone(c) ==
    LET st == crawls[c]
    IN  /\ st.pc = "backoff"
        /\ st.retryCount <= maxRetries /\ ~st.pageSuccess
        /\ event' = Event(c, "BackoffDone", "retry")
        /\ crawls' = [crawls EXCEPT ![c] = IssueFetch([st EXCEPT !.delay = 0])]
        /\ EmitsNothing
        /\ UNCHANGED <<wired, decoding, frontier, activeCrawls, jobs, crawledImages, activeJobs, progressListeners, started>>

\* The completed update has resolved: the final snapshot, then the finally
\* block of startCrawl, unless the listener throws into the catch block
CompletedSaved(c) ==
    LET st == crawls[c]
    IN  /\ st.pc = "completed"
        /\ Emits(st.jobId, <<CompletedSnap(st)>>)
        /\ IF EmitThrows(st.jobId)
           THEN /\ Caught(c, st, "listener failed")
                /\ event' = Event(c, "CompletedSaved", "listener failed")
                /\ UNCHANGED activeJobs
           ELSE /\ crawls' = [crawls EXCEPT ![c] = DoneCall(st.jobId, "returned")]
                /\ activeJobs' = [activeJobs EXCEPT ![st.jobId] = FALSE]
                /\ event' = Event(c, "CompletedSaved", "returned")
                /\ UNCHANGED jobs
        /\ UNCHANGED <<wired, decoding, frontier, activeCrawls, crawledImages, progressListeners, started>>

\* The failed update of the catch block has resolved: the failed snapshot,
\* then the finally block; a listener that throws here rejects startCrawl
FailedSaved(c) ==
    LET st == crawls[c]
    IN  /\ st.pc = "catch"
        /\ Emits(st.jobId, <<FailedSnap(st.error)>>)
        /\ crawls' = [crawls EXCEPT ![c] =
             DoneCall(st.jobId, IF EmitThrows(st.jobId) THEN "rejected" ELSE "returned")]
        /\ activeJobs' = [activeJobs EXCEPT ![st.jobId] = FALSE]
        /\ event' = Event(c, "FailedSaved", st.error)
        /\ UNCHANGED <<wired, decoding, frontier, activeCrawls, jobs, crawledImages, progressListeners, started>>

\* addProgressListener
AddProgressListener(j, l) ==
    /\ wired = "simple"
    /\ progressListeners[j] # l
    /\ progressListeners' = [progressListeners EXCEPT ![j] = l]
    /\ UNCHANGED <<wired, decoding, frontier, activeCrawls, jobs, crawledImages, activeJobs, crawls, started, emitted, event, streams>>

\* removeProgressListener
RemoveProgressListener(j) ==
    /\ wired = "simple"
    /\ progressListeners[j] # NoListener
    /\ progressListeners' = [progressListeners EXCEPT ![j] = NoListener]
    /\ UNCHANGED <<wired, decoding, frontier, activeCrawls, jobs, crawledImages, activeJobs, crawls, started, emitted, event, streams>>

\* ------------------------------------------------ CrawlerService, helpers
\* The locals of performCrawl are kept in the fields of the same record:
\* visited in visitedUrls, toVisit in urlsToVisit, origin in baseUrl, url in
\* currentUrl; error holds the message of an exception on its way to the
\* catch block of startCrawl.

\* The startCrawl invocations made on CrawlerService in one behaviour
PCalls == {1}

Min(a, b) == IF a < b THEN a ELSE b

\* Math.floor(n / d * 100)
FloorPercent(n, d) == (100 * n) \div d

\* HTMLAnchorElement.href, read by page.evaluate: the href attribute
\* resolved against the URL of the document
AnchorHref(href, url) ==
    LET u == NewURLWithBase(href, url)
    IN  IF u.ok THEN UrlToString(u) ELSE href

\* performCrawl, the body of `for (const link of links)`: the queue after
\* the links were looked at in order
RECURSIVE PushLinks(_, _, _, _, _)
PushLinks(toVisit, visited, links, url, origin) ==
    IF links = <<>> THEN toVisit
    ELSE LET linkUrl == NewURLWithBase(Head(links), url)
             cleanUrl == UrlToString([linkUrl EXCEPT !.hash = ""])
             pushed == IF /\ linkUrl.ok
                          /\ linkUrl.origin = origin
                          /\ cleanUrl \notin visited
                          /\ ~InSeq(cleanUrl, toVisit)
                       THEN Append(toVisit, cleanUrl) ELSE toVisit
         IN  PushLinks(pushed, visited, Tail(links), url, origin)

\* CrawlerService.normalizeUrl: null when resolution throws
normalizeUrl(base, url) ==
    LET u == NewURLWithBase(url, base)
    IN  IF u.ok THEN UrlToString(u) ELSE NullUrl

\* extractImagesFromPage: what page.evaluate returns for the elements imgs
RECURSIVE extractImagesFromPage(_, _)
extractImagesFromPage(imgs, includeCssBackgrounds) ==
    IF imgs = <<>> THEN <<>>
    ELSE (IF Head(imgs).tag = "css" /\ ~includeCssBackgrounds THEN <<>>
          ELSE <<[image_url |-> Head(imgs).src, alt_text |-> Head(imgs).alt,
                  html |-> Markup(Head(imgs))]>>)
           \o extractImagesFromPage(Tail(imgs), includeCssBackgrounds)

\* performCrawl, `for (const imageData of images)` from index i on: the
\* index of the next image whose URL resolves, 0 when there is none
RECURSIVE NextImage(_, _)
NextImage(st, i) ==
    IF i > Len(st.images) THEN 0
    ELSE IF normalizeUrl(st.currentUrl, st.images[i].image_url) = NullUrl
    THEN NextImage(st, i + 1)
    ELSE i

\* performCrawl, the createCrawledImage call for image number i
PSaveImage(st, i) ==
    createCrawledImage(crawledImages,
        [jobId |-> st.jobId, pageUrl |-> st.currentUrl,
         imageUrl |-> normalizeUrl(st.currentUrl, st.images[i].image_url),
         altText |-> st.images[i].alt_text,
         imgTagHtml |-> Slice400(CollapseNewlines(st.images[i].html))])

\* storage.getCrawledImagesByJobId(id).length
ImagesOfJob(imgs, id) == Cardinality({ i \in 1..Len(imgs) : imgs[i].jobId = id })

\* startCrawl of CrawlerService, the catch block up to the await of its update
PCaught(c, st, msg) ==
    /\ jobs' = updateCrawlJob(jobs, st.jobId,
                 [status |-> "failed", error |-> msg, completedAt |-> "date"])
    /\ crawls' = [crawls EXCEPT ![c] =
         [IdleCall EXCEPT !.pc = "p_catch", !.jobId = st.jobId, !.job = st.job,
                          !.error = msg, !.browser = st.browser]]

\* performCrawl, the head of the while loop, entered after the step has
\* emitted the payloads pre: page.goto is called for the next URL not yet
\* visited, or the loop ends and the finally block calls browser.close
RECURSIVE PLoopHead(_, _, _)
PLoopHead(c, st, pre) ==
    IF Len(st.urlsToVisit) > 0 /\ Cardinality(st.visitedUrls) < st.job.maxPages
    THEN LET url == Head(st.urlsToVisit)
             rest == [st EXCEPT !.urlsToVisit = Tail(@)]
         IN  IF url \in st.visitedUrls
             THEN PLoopHead(c, rest, pre)
             ELSE /\ crawls' = [crawls EXCEPT ![c] =
                       [rest EXCEPT !.visitedUrls = @ \cup {url},
                                    !.currentUrl = url, !.images = <<>>,
                                    !.next = 0, !.pc = "p_goto"]]
                  /\ jobs' = jobs
                  /\ Emits(st.jobId, pre)
    ELSE /\ crawls' = [crawls EXCEPT ![c] =
              [st EXCEPT !.currentUrl = NullUrl, !.images = <<>>, !.next = 0,
                         !.pc = "p_close"]]
         /\ jobs' = jobs
         /\ Emits(st.jobId, pre)

\* -------------------------------------------------- CrawlerService, steps
\* startCrawl up to its first await: the guard, then the getCrawlJob call
PStartCrawl(c, j) ==
    /\ wired = "puppeteer"
    /\ crawls[c].pc = "idle"
    /\ c = started + 1
    /\ started' = c
    /\ IF activeCrawls[j]
       THEN /\ crawls' = [crawls EXCEPT ![c] = DoneCall(j, "rejected")]
            /\ event' = Event(c, "PStartCrawl", "Crawl already in progress")
       ELSE /\ crawls' = [crawls EXCEPT ![c] =
                 [IdleCall EXCEPT !.pc = "p_getCrawlJob", !.jobId = j,
                    !.job = IF jobs[j] = NoJob THEN NoJob
                            ELSE [targetUrl |-> jobs[j].targetUrl,
                                  maxPages |-> jobs[j].maxPages,
                                  includeCssBackgrounds |-> jobs[j].includeCssBackgrounds]]]
            /\ event' = Event(c, "PStartCrawl", "started")
    /\ EmitsNothing
    /\ UNCHANGED <<wired, decoding, frontier, jobs, crawledImages, activeJobs, activeCrawls, progressListeners>>

\* startCrawl resumes with the job: `Job not found` rejects the call, or the
\* job is marked active and the `running` update is made
PGetCrawlJobDone(c) ==
    LET st == crawls[c]
    IN  /\ st.pc = "p_getCrawlJob"
        /\ IF st.job = NoJob
           THEN /\ crawls' = [crawls EXCEPT ![c] = DoneCall(st.jobId, "rejected")]
                /\ event' = Event(c, "PGetCrawlJobDone", "Job not found")
                /\ UNCHANGED <<jobs, activeCrawls>>
           ELSE /\ activeCrawls' = [activeCrawls EXCEPT ![st.jobId] = TRUE]
                /\ jobs' = updateCrawlJob(jobs, st.jobId, [status |-> "running"])
                /\ crawls' = [crawls EXCEPT ![c] = [st EXCEPT !.pc = "p_running"]]
                /\ event' = Event(c, "PGetCrawlJobDone", "found")
        /\ EmitsNothing
        /\ UNCHANGED <<wired, decoding, frontier, crawledImages, activeJobs, progressListeners, started>>

\* The `running` update has resolved: the first payload is emitted and
\* performCrawl calls puppeteer.launch
PRunningSaved(c) ==
    LET st == crawls[c]
    IN  /\ st.pc = "p_running"
        /\ Emits(st.jobId, <<[status |-> "running"]>>)
        /\ crawls' = [crawls EXCEPT ![c] = [st EXCEPT !.pc = "p_launch"]]
        /\ event' = Event(c, "PRunningSaved", "saved")
        /\ UNCHANGED <<wired, decoding, frontier, jobs, crawledImages, activeJobs, activeCrawls,
                       progressListeners, started>>

\* puppeteer.launch settles: browser.newPage is called, or the rejection
\* reaches the catch block of startCrawl
PLaunchDone(c, ok) ==
    LET st == crawls[c]
    IN  /\ st.pc = "p_launch"
        /\ IF ok
           THEN /\ crawls' = [crawls EXCEPT ![c] =
                     [st EXCEPT !.browser = "open", !.pc = "p_newPage"]]
                /\ UNCHANGED jobs
           ELSE PCaught(c, st, "launch failed")
        /\ event' = Event(c, "PLaunchDone", IF ok THEN "ok" ELSE "error")
        /\ EmitsNothing
        /\ UNCHANGED <<wired, decoding, frontier, crawledImages, activeJobs, activeCrawls,
                       progressListeners, started>>

\* browser.newPage settles.  A rejection leaves performCrawl before its try
\* block is entered.  Otherwise the locals are set up inside the try block:
\* new URL(job.targetUrl) may throw, which runs the finally block; if not,
\* the first totalPagesFound update is made
PNewPageDone(c, ok) ==
    LET st == crawls[c]
        seed == NewURL(st.job.targetUrl)
    IN  /\ st.pc = "p_newPage"
        /\ IF ~ok
           THEN /\ PCaught(c, st, "newPage failed")
                /\ event' = Event(c, "PNewPageDone", "error")
           ELSE IF ~seed.ok
           THEN /\ crawls' = [crawls EXCEPT ![c] =
                     [st EXCEPT !.error = "Invalid URL", !.pc = "p_close"]]
                /\ UNCHANGED jobs
                /\ event' = Event(c, "PNewPageDone", "invalid seed")
           ELSE /\ crawls' = [crawls EXCEPT ![c] =
                     [st EXCEPT !.baseUrl = seed.origin,
                                !.urlsToVisit = <<st.job.targetUrl>>,
                                !.pc = "p_found1"]]
                /\ jobs' = updateCrawlJob(jobs, st.jobId, [totalPagesFound |-> 1])
                /\ event' = Event(c, "PNewPageDone", "ok")
        /\ EmitsNothing
        /\ UNCHANGED <<wired, decoding, frontier, crawledImages, activeJobs, activeCrawls,
                       progressListeners, started>>

\* The first totalPagesFound update has resolved: its payload is emitted
\* and the loop is entered
PFound1Saved(c) ==
    LET st == crawls[c]
    IN  /\ st.pc = "p_found1"
        /\ PLoopHead(c, st, <<[totalPagesFound |-> 1]>>)
        /\ event' = Event(c, "PFound1Saved", "saved")
        /\ UNCHANGED <<wired, decoding, frontier, crawledImages, activeJobs, activeCrawls,
                       progressListeners, started>>

\* page.goto settles: the progress update is made, or the rejection is
\* caught inside the loop, which goes on with the next URL
PGotoDone(c, ok) ==
    LET st == crawls[c]
        size == Cardinality(st.visitedUrls)
        progress == FloorPercent(size,
                        Min(st.job.maxPages, Len(st.urlsToVisit) + size))
    IN  /\ st.pc = "p_goto"
        /\ IF ok
           THEN /\ jobs' = updateCrawlJob(jobs, st.jobId,
                     [currentPage |-> st.currentUrl, pagesProcessed |-> size,
                      progress |-> progress])
                /\ crawls' = [crawls EXCEPT ![c] = [st EXCEPT !.pc = "p_progress"]]
                /\ EmitsNothing
           ELSE PLoopHead(c, st, <<>>)
        /\ event' = Event(c, "PGotoDone", IF ok THEN "ok" ELSE "error")
        /\ UNCHANGED <<wired, decoding, frontier, crawledImages, activeJobs, activeCrawls,
                       progressListeners, started>>

\* The progress update has resolved: its payload is emitted and the links
\* of the page are asked for
PProgressSaved(c) ==
    LET st == crawls[c]
    IN  /\ st.pc = "p_progress"
        /\ Emits(st.jobId, <<[currentPage |-> st.currentUrl,
                              pagesProcessed |-> Cardinality(st.visitedUrls),
                              progress |-> FloorPercent(Cardinality(st.visitedUrls),
                                  Min(st.job.maxPages,
                                      Len(st.urlsToVisit) + Cardinality(st.visitedUrls)))]>>)
        /\ crawls' = [crawls EXCEPT ![c] = [st EXCEPT !.pc = "p_links"]]
        /\ event' = Event(c, "PProgressSaved", "saved")
        /\ UNCHANGED <<wired, decoding, frontier, jobs, crawledImages, activeJobs, activeCrawls,
                       progressListeners, started>>

\* page.evaluate resolves with the links of the page, whose <a href>
\* values are hrefs: the same-origin ones are queued and the
\* totalPagesFound update is made
PLinksDone(c, hrefs) ==
    LET st == crawls[c]
        links == [i \in 1..Len(hrefs) |-> AnchorHref(hrefs[i], st.currentUrl)]
        toVisit == PushLinks(st.urlsToVisit, st.visitedUrls, links,
                             st.currentUrl, st.baseUrl)
    IN  /\ st.pc = "p_links"
        /\ crawls' = [crawls EXCEPT ![c] =
             [st EXCEPT !.urlsToVisit = toVisit, !.pc = "p_found"]]
        /\ jobs' = updateCrawlJob(jobs, st.jobId,
             [totalPagesFound |-> Cardinality(st.visitedUrls) + Len(toVisit)])
        /\ event' = Event(c, "PLinksDone",
                          LinksOutcome(hrefs, st.currentUrl, st.baseUrl))
        /\ EmitsNothing
        /\ UNCHANGED <<wired, decoding, frontier, crawledImages, activeJobs, activeCrawls,
                       progressListeners, started>>

\* The totalPagesFound update has resolved: its payload is emitted and the
\* images of the page are asked for
PFoundSaved(c) ==
    LET st == crawls[c]
    IN  /\ st.pc = "p_found"
        /\ Emits(st.jobId, <<[totalPagesFound |->
                                Cardinality(st.visitedUrls) + Len(st.urlsToVisit)]>>)
        /\ crawls' = [crawls EXCEPT ![c] = [st EXCEPT !.pc = "p_images"]]
        /\ event' = Event(c, "PFoundSaved", "saved")
        /\ UNCHANGED <<wired, decoding, frontier, jobs, crawledImages, activeJobs, activeCrawls,
                       progressListeners, started>>

\* The code after image number i - 1 was handled: the next image that
\* resolves is handed to the store, or the images of the job are read back
PSaveFrom(c, st, i) ==
    LET n == NextImage(st, i)
    IN  IF n = 0
        THEN /\ crawls' = [crawls EXCEPT ![c] =
                  [st EXCEPT !.images = <<>>, !.next = 0, !.pc = "p_count"]]
             /\ UNCHANGED crawledImages
        ELSE /\ crawledImages' = PSaveImage(st, n)
             /\ crawls' = [crawls EXCEPT ![c] =
                  [st EXCEPT !.next = n, !.pc = "p_saveImage"]]

\* extractImagesFromPage resolves with the images of the page, whose
\* image-bearing elements are imgs
PImagesDone(c, imgs) ==
    LET st == crawls[c]
        st1 == [st EXCEPT !.images =
                  extractImagesFromPage(imgs, st.job.includeCssBackgrounds)]
    IN  /\ st.pc = "p_images"
        /\ PSaveFrom(c, st1, 1)
        /\ event' = Event(c, "PImagesDone", "images")
        /\ EmitsNothing
        /\ UNCHANGED <<wired, decoding, frontier, jobs, activeJobs, activeCrawls, progressListeners, started>>

\* page.evaluate rejects (the links or the images were asked for): the
\* rejection is caught inside the loop, which goes on with the next URL
PEvaluateFailed(c) ==
    LET st == crawls[c]
    IN  /\ st.pc \in {"p_links", "p_images"}
        /\ PLoopHead(c, st, <<>>)
        /\ event' = Event(c, "PEvaluateFailed", "error")
        /\ UNCHANGED <<wired, decoding, frontier, crawledImages, activeJobs, activeCrawls,
                       progressListeners, started>>

\* A createCrawledImage call has resolved
PImageSaved(c) ==
    LET st == crawls[c]
    IN  /\ st.pc = "p_saveImage"
        /\ PSaveFrom(c, st, st.next + 1)
        /\ event' = Event(c, "PImageSaved", "saved")
        /\ EmitsNothing
        /\ UNCHANGED <<wired, decoding, frontier, jobs, activeJobs, activeCrawls, progressListeners, started>>

\* getCrawledImagesByJobId has resolved: the imagesFound update is made
PCountDone(c) ==
    LET st == crawls[c]
        totalImages == ImagesOfJob(crawledImages, st.jobId)
    IN  /\ st.pc = "p_count"
        /\ jobs' = updateCrawlJob(jobs, st.jobId, [imagesFound |-> totalImages])
        /\ crawls' = [crawls EXCEPT ![c] =
             [st EXCEPT !.totalImages = totalImages, !.pc = "p_imagesFound"]]
        /\ event' = Event(c, "PCountDone", "counted")
        /\ EmitsNothing
        /\ UNCHANGED <<wired, decoding, frontier, crawledImages, activeJobs, activeCrawls,
                       progressListeners, started>>

\* The imagesFound update has resolved: its payload is emitted and the
\* loop goes on
PImagesFoundSaved(c) ==
    LET st == crawls[c]
    IN  /\ st.pc = "p_imagesFound"
        /\ PLoopHead(c, [st EXCEPT !.totalImages = 0],
                     <<[imagesFound |-> st.totalImages]>>)
        /\ event' = Event(c, "PImagesFoundSaved", "saved")
        /\ UNCHANGED <<wired, decoding, frontier, crawledImages, activeJobs, activeCrawls,
                       progressListeners, started>>

\* browser.close has resolved: performCrawl returns and startCrawl makes
\* the `completed` update, or the exception held back by the finally block
\* goes on to the catch block of startCrawl
PCloseDone(c) ==
    LET st == crawls[c]
        st1 == [IdleCall EXCEPT !.jobId = st.jobId, !.job = st.job,
                                !.browser = "closed"]
    IN  /\ st.pc = "p_close"
        /\ IF st.error = "null"
           THEN /\ jobs' = updateCrawlJob(jobs, st.jobId,
                     [status |-> "completed", completedAt |-> "date",
                      progress |-> 100])
                /\ crawls' = [crawls EXCEPT ![c] = [st1 EXCEPT !.pc = "p_completed"]]
           ELSE PCaught(c, st1, st.error)
        /\ event' = Event(c, "PCloseDone", st.error)
        /\ EmitsNothing
        /\ UNCHANGED <<wired, decoding, frontier, crawledImages, activeJobs, activeCrawls,
                       progressListeners, started>>

\* The `completed` update has resolved: the last payload, then the finally
\* block of startCrawl
PCompletedSaved(c) ==
    LET st == crawls[c]
    IN  /\ st.pc = "p_completed"
        /\ Emits(st.jobId, <<[status |-> "completed", progress |-> 100]>>)
        /\ crawls' = [crawls EXCEPT ![c] =
             [DoneCall(st.jobId, "returned") EXCEPT !.browser = st.browser]]
        /\ activeCrawls' = [activeCrawls EXCEPT ![st.jobId] = FALSE]
        /\ event' = Event(c, "PCompletedSaved", "returned")
        /\ UNCHANGED <<wired, decoding, frontier, jobs, crawledImages, activeJobs, progressListeners, started>>

\* The `failed` update has resolved: the failed payload, then the finally
\* block of startCrawl
PFailedSaved(c) ==
    LET st == crawls[c]
    IN  /\ st.pc = "p_catch"
        /\ Emits(st.jobId, <<[status |-> "failed", error |-> st.error]>>)
        /\ crawls' = [crawls EXCEPT ![c] =
             [DoneCall(st.jobId, "returned") EXCEPT !.browser = st.browser]]
        /\ activeCrawls' = [activeCrawls EXCEPT ![st.jobId] = FALSE]
        /\ event' = Event(c, "PFailedSaved", st.error)
        /\ UNCHANGED <<wired, decoding, frontier, jobs, crawledImages, activeJobs, progressListeners, started>>

NextPuppeteer ==
    \/ \E c \in PCalls, j \in JobIds : PStartCrawl(c, j)
    \/ \E c \in PCalls : PGetCrawlJobDone(c)
    \/ \E c \in PCalls : PRunningSaved(c)
    \/ \E c \in PCalls, ok \in BOOLEAN : PLaunchDone(c, ok)
    \/ \E c \in PCalls, ok \in BOOLEAN : PNewPageDone(c, ok)
    \/ \E c \in PCalls : PFound1Saved(c)
    \/ \E c \in PCalls, ok \in BOOLEAN : PGotoDone(c, ok)
    \/ \E c \in PCalls : PProgressSaved(c)
    \/ \E c \in PCalls, hrefs \in SeqsUpTo(Hrefs, MaxLinks) : PLinksDone(c, hrefs)
    \/ \E c \in PCalls : PFoundSaved(c)
    \/ \E c \in PCalls, imgs \in ImgLists : PImagesDone(c, imgs)
    \/ \E c \in PCalls : PEvaluateFailed(c)
    \/ \E c \in PCalls : PImageSaved(c)
    \/ \E c \in PCalls : PCountDone(c)
    \/ \E c \in PCalls : PImagesFoundSaved(c)
    \/ \E c \in PCalls : PCloseDone(c)
    \/ \E c \in PCalls : PCompletedSaved(c)
    \/ \E c \in PCalls : PFailedSaved(c)

NextSimple ==
    \/ \E c \in Calls, j \in JobIds : StartCrawl(c, j)
    \/ \E c \in Calls : GetCrawlJobDone(c)
    \/ \E c \in Calls : CrawlBegin(c)
    \/ \E c \in Calls, o \in {"ok", "status", "abort", "error"} : FetchDone(c, o)
    \/ \E c \in Calls, html \in Htmls : TextDone(c, html)
    \/ \E c \in Calls : TextFailed(c)
    \/ \E c \in Calls, links \in SeqsUpTo(Hrefs, MaxLinks) : ImageSaved(c, links)
    \/ \E c \in Calls : ProgressSaved(c)
    \/ \E c \in Calls : BackoffDone(c)
    \/ \E c \in Calls : CompletedSaved(c)
    \/ \E c \in Calls : FailedSaved(c)
    \/ \E j \in ListenedJobs, l \in Listeners : AddProgressListener(j, l)
    \/ \E j \in ListenedJobs : RemoveProgressListener(j)

Next == NextSimple \/ NextPuppeteer

Spec == Init /\ [][Next]_vars

\* ------------------------------------- crawls of pages with other images
\* The image-bearing elements of the wider pages: besides the <img> of
\* ImgElems a background-image declaration, an <img> whose src no URL
\* parser accepts (such as "http://") and an <img> with long markup
ImgElemsWide ==
    ImgElems \cup
      { [tag |-> "css", src |-> Url("", "/bg.png", ""), alt |-> ""],
        [tag |-> "img", src |-> Url("?", "", ""), alt |-> ""],
        [tag |-> "img", src |-> Url("", "/a.png", ""), alt |-> "", html |-> "imgLong"] }

HtmlsWide == [links : SeqsUpTo(Hrefs, MaxLinks), imgs : SeqsUpTo(ImgElemsWide, 1)]

\* POST /api/crawl with includeCssBackgrounds false and a well-formed
\* targetUrl; the job is crawled by SimpleCrawlerService
InitImages ==
    /\ wired = "simple"
    /\ \E m \in 1..MaxBudget :
         jobs = [j \in JobIds |->
                   IF j = "j1"
                   THEN createCrawlJob([targetUrl |-> Url("https://a", "/", ""),
                                        maxPages |-> m,
                                        includeCssBackgrounds |-> FALSE])
                   ELSE NoJob]
    /\ crawledImages = <<>>
    /\ activeJobs = [j \in JobIds |-> FALSE]
    /\ activeCrawls = [j \in JobIds |-> FALSE]
    /\ progressListeners = [j \in JobIds |-> NoListener]
    /\ crawls = [c \in Calls |-> IdleCall]
    /\ started = 0
    /\ streams = NoStreams
    /\ emitted = [j \in JobIds |-> <<>>]
    /\ event = Event(0, "none", "none")
    /\ decoding = NoText
    /\ frontier = NoFrontier

NextImages ==
    \/ \E c \in Calls, j \in JobIds : StartCrawl(c, j)
    \/ \E c \in Calls : GetCrawlJobDone(c)
    \/ \E c \in Calls : CrawlBegin(c)
    \/ \E c \in Calls, o \in {"ok", "status", "abort", "error"} : FetchDone(c, o)
    \/ \E c \in Calls, html \in HtmlsWide : TextDone(c, html)
    \/ \E c \in Calls : TextFailed(c)
    \/ \E c \in Calls, links \in SeqsUpTo(Hrefs, MaxLinks) : ImageSaved(c, links)
    \/ \E c \in Calls : ProgressSaved(c)
    \/ \E c \in Calls : BackoffDone(c)
    \/ \E c \in Calls : CompletedSaved(c)
    \/ \E c \in Calls : FailedSaved(c)
    \/ \E j \in ListenedJobs, l \in Listeners : AddProgressListener(j, l)
    \/ \E j \in ListenedJobs : RemoveProgressListener(j)

SpecImages == InitImages /\ [][NextImages]_vars

\* ------------------------------------------------- two jobs at a time
\* Two POST /api/crawl requests for the same site: both jobs exist, and the
\* two startCrawl invocations may be made for different jobs
InitTwoJobs ==
    /\ wired = "simple"
    /\ jobs = [j \in JobIds |->
                 createCrawlJob([targetUrl |-> Url("https://a", "/", ""),
                                 maxPages |-> 2,
                                 includeCssBackgrounds |-> TRUE])]
    /\ crawledImages = <<>>
    /\ activeJobs = [j \in JobIds |-> FALSE]
    /\ activeCrawls = [j \in JobIds |-> FALSE]
    /\ progressListeners = [j \in JobIds |-> NoListener]
    /\ crawls = [c \in Calls |-> IdleCall]
    /\ started = 0
    /\ streams = NoStreams
    /\ emitted = [j \in JobIds |-> <<>>]
    /\ event = Event(0, "none", "none")
    /\ decoding = NoText
    /\ frontier = NoFrontier

\* The pages of the site: with or without a link to /p1, with or without
\* the <img>
LinksTwoJobs == {<<>>, <<Url("", "/p1", "#s")>>}
HtmlsTwoJobs == [links : LinksTwoJobs, imgs : ImgLists]

NextTwoJobs ==
    \/ \E c \in Calls, j \in JobIds : StartCrawl(c, j)
    \/ \E c \in Calls : GetCrawlJobDone(c)
    \/ \E c \in Calls : CrawlBegin(c)
    \/ \E c \in Calls, o \in {"ok", "error"} : FetchDone(c, o)
    \/ \E c \in Calls, html \in HtmlsTwoJobs : TextDone(c, html)
    \/ \E c \in Calls : TextFailed(c)
    \/ \E c \in Calls, links \in LinksTwoJobs : ImageSaved(c, links)
    \/ \E c \in Calls : ProgressSaved(c)
    \/ \E c \in Calls : BackoffDone(c)
    \/ \E c \in Calls : CompletedSaved(c)
    \/ \E c \in Calls : FailedSaved(c)
    \/ \E j \in ListenedJobs, l \in Listeners : AddProgressListener(j, l)
    \/ \E j \in ListenedJobs : RemoveProgressListener(j)

SpecTwoJobs == InitTwoJobs /\ [][NextTwoJobs]_vars

\* ------------------------------------------------ crawls that go on
\* A job is submitted and crawled by SimpleCrawlerService; no listener is
\* registered
InitLive ==
    /\ wired = "simple"
    /\ \E t \in TargetUrls, m \in 1..MaxBudget :
         jobs = [j \in JobIds |->
                   IF j = "j1"
                   THEN createCrawlJob([targetUrl |-> t, maxPages |-> m,
                                        includeCssBackgrounds |-> TRUE])
                   ELSE NoJob]
    /\ crawledImages = <<>>
    /\ activeJobs = [j \in JobIds |-> FALSE]
    /\ activeCrawls = [j \in JobIds |-> FALSE]
    /\ progressListeners = [j \in JobIds |-> NoListener]
    /\ crawls = [c \in Calls |-> IdleCall]
    /\ started = 0
    /\ streams = NoStreams
    /\ emitted = [j \in JobIds |-> <<>>]
    /\ event = Event(0, "none", "none")
    /\ decoding = NoText
    /\ frontier = NoFrontier

\* The steps the runtime takes by itself: a promise of the store resolves,
\* a backoff timer fires, and the promise of fetch settles, at the latest
\* when the timer of lines 101-103 aborts the request
CrawlGoesOn(c) ==
    \/ GetCrawlJobDone(c)
    \/ CrawlBegin(c)
    \/ \E o \in {"ok", "status", "abort", "error"} : FetchDone(c, o)
    \/ \E links \in SeqsUpTo(Hrefs, MaxLinks) : ImageSaved(c, links)
    \/ ProgressSaved(c)
    \/ BackoffDone(c)
    \/ CompletedSaved(c)
    \/ FailedSaved(c)

\* The steps that wait for the server alone: response.text() settles when
\* the body has arrived or the connection breaks; the timer was cleared at
\* line 113, before the body is read
BodyArrives(c) ==
    \/ \E html \in Htmls : TextDone(c, html)
    \/ TextFailed(c)

NextLive ==
    \/ \E c \in Calls : StartCrawl(c, "j1")
    \/ \E c \in Calls : CrawlGoesOn(c)
    \/ \E c \in Calls : BodyArrives(c)

SpecLive ==
    /\ InitLive
    /\ [][NextLive]_vars
    /\ \A c \in Calls : WF_vars(CrawlGoesOn(c))

\* ------------------------------------------- the traversal loop alone
\* The <a href> values of the pages the loop is run on: those of Hrefs, a
\* document with an upper-case extension, a third page and a link to a
\* fragment of the page itself
HrefsWide ==
    Hrefs \cup { Url("", "/B.PDF", ""), Url("", "/p2", ""), Url("", "", "#top") }

\* The URLs that the loop of lines 158-162 pushes for newUrls, in the order
\* of the push calls
RECURSIVE PushedBy(_, _, _)
PushedBy(urlsToVisit, visitedUrls, newUrls) ==
    IF newUrls = <<>> THEN <<>>
    ELSE LET url == Head(newUrls)
             push == url \notin visitedUrls /\ ~InSeq(url, urlsToVisit)
         IN  (IF push THEN <<url>> ELSE <<>>)
               \o PushedBy(IF push THEN Append(urlsToVisit, url) ELSE urlsToVisit,
                           visitedUrls, Tail(newUrls))

\* performSimpleCrawl, lines 58-62: the locals before the loop
InitFrontier ==
    /\ wired = "simple"
    /\ jobs = [j \in JobIds |-> NoJob]
    /\ crawledImages = <<>>
    /\ activeJobs = [j \in JobIds |-> FALSE]
    /\ activeCrawls = [j \in JobIds |-> FALSE]
    /\ progressListeners = [j \in JobIds |-> NoListener]
    /\ crawls = [c \in Calls |-> IdleCall]
    /\ started = 0
    /\ streams = NoStreams
    /\ emitted = [j \in JobIds |-> <<>>]
    /\ event = Event(0, "none", "none")
    /\ decoding = NoText
    /\ \E seed \in {Url("https://a", "", ""), Url("https://a", "/", "")},
          m \in 1..(MaxBudget + 1) :
         frontier = [pc |-> "loop", job |-> [maxPages |-> m],
                     baseUrl |-> NewURL(seed).origin,
                     urlsToVisit |-> <<seed>>, visitedUrls |-> {},
                     pagesProcessed |-> 0, currentUrl |-> NullUrl,
                     links |-> <<>>, pushed |-> <<>>,
                     pushOrder |-> <<seed>>, fetchOrder |-> <<>>,
                     skipped |-> FALSE]

\* One pass through the head of the loop (lines 75-82): the next URL is
\* taken from the front; it is skipped when visited, else marked and requested
FrontierDequeue ==
    LET currentUrl == Head(frontier.urlsToVisit)
        rest == [frontier EXCEPT !.urlsToVisit = Tail(@), !.links = <<>>,
                                 !.pushed = <<>>]
    IN  /\ frontier.pc = "loop"
        /\ LoopContinues(frontier)
        /\ frontier' =
             IF currentUrl \in frontier.visitedUrls
             THEN [rest EXCEPT !.skipped = TRUE]
             ELSE [rest EXCEPT !.visitedUrls = @ \cup {currentUrl},
                               !.currentUrl = currentUrl,
                               !.fetchOrder = Append(@, currentUrl),
                               !.pc = "page"]
        /\ UNCHANGED <<wired, jobs, crawledImages, activeJobs, activeCrawls,
                       progressListeners, crawls, started, emitted, event, streams, decoding>>

\* The page was fetched and its images were saved: its links are pushed and
\* the page is counted (lines 156-164)
FrontierPageDone(links) ==
    LET newUrls == extractLinks(links, frontier.currentUrl, frontier.baseUrl)
        pushed == PushedBy(frontier.urlsToVisit, frontier.visitedUrls, newUrls)
    IN  /\ frontier.pc = "page"
        /\ frontier' =
             [frontier EXCEPT
                !.urlsToVisit = Enqueue(@, frontier.visitedUrls, newUrls),
                !.pagesProcessed = @ + 1,
                !.links = links, !.pushed = pushed,
                !.pushOrder = @ \o pushed,
                !.pc = "loop"]
        /\ UNCHANGED <<wired, jobs, crawledImages, activeJobs, activeCrawls,
                       progressListeners, crawls, started, emitted, event, streams, decoding>>

\* The last attempt for the page failed (lines 194-207): nothing is pushed
FrontierPageGivenUp ==
    /\ frontier.pc = "page"
    /\ frontier' = [frontier EXCEPT !.pc = "loop"]
    /\ UNCHANGED <<wired, jobs, crawledImages, activeJobs, activeCrawls,
                   progressListeners, crawls, started, emitted, event, streams, decoding>>

\* The condition of the loop is false
FrontierLoopEnds ==
    /\ frontier.pc = "loop"
    /\ ~LoopContinues(frontier)
    /\ frontier' = [frontier EXCEPT !.pc = "done", !.links = <<>>, !.pushed = <<>>]
    /\ UNCHANGED <<wired, jobs, crawledImages, activeJobs, activeCrawls,
                   progressListeners, crawls, started, emitted, event, streams, decoding>>

NextFrontier ==
    \/ FrontierDequeue
    \/ \E links \in SeqsUpTo(HrefsWide, MaxLinks) : FrontierPageDone(links)
    \/ FrontierPageGivenUp
    \/ FrontierLoopEnds

SpecFrontier == InitFrontier /\ [][NextFrontier]_vars

\* ------------------------------------------- decodeHtmlEntities alone
\* A text is decoded, and the result is decoded again
InitDecode ==
    /\ wired = "simple"
    /\ jobs = [j \in JobIds |-> NoJob]
    /\ crawledImages = <<>>
    /\ activeJobs = [j \in JobIds |-> FALSE]
    /\ activeCrawls = [j \in JobIds |-> FALSE]
    /\ progressListeners = [j \in JobIds |-> NoListener]
    /\ crawls = [c \in Calls |-> IdleCall]
    /\ started = 0
    /\ streams = NoStreams
    /\ emitted = [j \in JobIds |-> <<>>]
    /\ event = Event(0, "none", "none")
    /\ frontier = NoFrontier
    /\ \E text \in Texts : decoding = [input |-> text, outputs |-> <<>>]

Decode ==
    LET text == IF decoding.outputs = <<>> THEN decoding.input
                ELSE decoding.outputs[Len(decoding.outputs)]
    IN  /\ Len(decoding.outputs) < 2
        /\ decoding' = [decoding EXCEPT !.outputs = Append(@, decodeHtmlEntities(text))]
        /\ UNCHANGED <<wired, jobs, crawledImages, activeJobs, activeCrawls,
                       progressListeners, crawls, started, emitted, event, streams, frontier>>

NextDecode == Decode

SpecDecode == InitDecode /\ [][NextDecode]_vars

\* ------------------------------------------------------------ properties
\* The calls of SimpleCrawlerService.startCrawl that hold a job
SimpleCrawls == { c \in Calls : wired = "simple" /\ crawls[c].job # NoJob }

\* C1: in a crawl of SimpleCrawlerService the pagesProcessed value of
\* the loop, the one in the job store and the one of every emitted
\* snapshot are at most the maxPages of the job.
C1_PagesWithinBudget ==
    /\ \A c \in SimpleCrawls : crawls[c].pagesProcessed <= crawls[c].job.maxPages
    /\ \A j \in JobIds :
         (wired = "simple" /\ jobs[j] # NoJob) =>
            /\ jobs[j].pagesProcessed <= jobs[j].maxPages
            /\ \A i \in 1..Len(emitted[j]) :
                 emitted[j][i].pagesProcessed <= jobs[j].maxPages

\* C1, its case: the loop has ended on the budget with URLs left in the
\* queue, and the stored count is the budget
C1_Witness ==
    \E c \in SimpleCrawls :
        /\ crawls[c].pc = "completed"
        /\ Len(crawls[c].urlsToVisit) > 0
        /\ crawls[c].pagesProcessed = crawls[c].job.maxPages
        /\ jobs[crawls[c].jobId].pagesProcessed = crawls[c].job.maxPages

\* The moves of the stored status that the life cycle allows
StatusMoves ==
    { <<"pending", "running">>, <<"running", "completed">>, <<"running", "failed">> }

\* C2: the stored status of a job only moves pending -> running ->
\* completed or pending -> running -> failed; it never moves backward and
\* never leaves a terminal value.
C2_StatusLifeCycle ==
    [][\A j \in JobIds :
          (wired = "simple" /\ jobs[j] # NoJob) =>
             \/ jobs'[j].status = jobs[j].status
             \/ <<jobs[j].status, jobs'[j].status>> \in StatusMoves]_vars

\* C3: within one job of SimpleCrawlerService the retry loop is entered
\* at most once for a page, pages being told apart after the URL is
\* resolved and its fragment removed.
C3_PageFetchedOnce == \A c \in SimpleCrawls : ~crawls[c].refetched

\* C4: in both services every URL in the queue or in the visited set has
\* the origin of the seed URL, and so has the URL a request is made for: a
\* link to another origin is neither queued nor fetched.
C4_SameOriginFrontier ==
    \A c \in Calls :
        LET st == crawls[c]
        IN  st.baseUrl # "" =>
              /\ st.baseUrl = NewURL(st.job.targetUrl).origin
              /\ \A u \in st.visitedUrls : NewURL(u).origin = st.baseUrl
              /\ \A i \in 1..Len(st.urlsToVisit) :
                   NewURL(st.urlsToVisit[i]).origin = st.baseUrl
              /\ st.pc \in {"fetch", "text", "p_goto"} =>
                   NewURL(st.currentUrl).origin = st.baseUrl

\* C4, its case: a page with a link to another origin has been read and
\* the links of the page were queued
C4_Witness ==
    \E c \in SimpleCrawls :
        /\ event = Event(c, "TextDone", "foreign link")
        /\ crawls[c].pc = "progress"
        /\ Len(crawls[c].urlsToVisit) > 0

\* The outcomes of a step in which an attempt for a page failed
Failures == {"status", "abort", "error"}

\* C5: with a well-formed seed URL a failure of a page, of whatever kind
\* and on every attempt, never fails the job: the page is retried or
\* skipped and the loop goes on or ends with the `completed` update.  A
\* job with such a seed has status failed only after an exception of the
\* progress listener, which is no failure of a page.
C5_PageFailuresContained ==
    /\ \A j \in JobIds :
         (/\ wired = "simple"
          /\ jobs[j] # NoJob
          /\ NewURL(jobs[j].targetUrl).ok
          /\ jobs[j].status = "failed") => jobs[j].error = "listener failed"
    /\ \A c \in SimpleCrawls :
         (/\ event.call = c
          /\ event.step \in {"FetchDone", "TextFailed"}
          /\ event.outcome \in Failures) =>
            \/ crawls[c].pc \in {"backoff", "fetch"}
            \/ /\ crawls[c].pc = "completed"
               /\ jobs[crawls[c].jobId].status = "completed"
            \/ /\ crawls[c].pc = "catch"
               /\ crawls[c].error = "listener failed"

\* C5, its case: the only page of a job answered with a non-2xx status on
\* every attempt and the job is completed
C5_Witness ==
    \E c \in SimpleCrawls :
        /\ event = Event(c, "FetchDone", "status")
        /\ crawls[c].pc = "completed"
        /\ crawls[c].pagesProcessed = 0
        /\ jobs[crawls[c].jobId].status = "completed"

\* C6: at most 3 requests are issued for a dequeued URL; a URL is given up
\* only after exactly 3; once an attempt has succeeded no request for that
\* URL follows.
C6_RequestsPerUrl ==
    [][\A c \in Calls :
          LET a == crawls[c]
              b == crawls'[c]
          IN  wired = "simple" =>
                /\ b.requests <= 3
                /\ (/\ a.pc \in {"fetch", "text"}
                    /\ b # a
                    /\ event'.call = c
                    /\ event'.step \in {"FetchDone", "TextFailed"}
                    /\ event'.outcome \in Failures
                    /\ b.pc # "backoff") => a.requests = 3
                /\ (a.pc \in {"saveImage", "progress"} /\ b.currentUrl = a.currentUrl)
                      => b.requests = a.requests
                /\ (a.pc \in {"saveImage", "progress"} /\ b.pc = "fetch")
                      => b.currentUrl # a.currentUrl]_vars

\* C6, its case: three requests were made for a URL, the last one failed
\* with a network error, and the URL was given up
C6_Witness ==
    \E c \in SimpleCrawls :
        /\ event = Event(c, "FetchDone", "error")
        /\ crawls[c].pc = "completed"
        /\ crawls[c].requests = 3

\* The calls of SimpleCrawlerService.startCrawl that are past the guard
\* for job j and have not left the finally block
Traversing(j) ==
    { c \in Calls : crawls[c].jobId = j /\ crawls[c].pc \notin {"idle", "done"} }

\* C7: in SimpleCrawlerService at most one traversal of a job is in
\* progress at any time, and a startCrawl made while the job is active
\* returns at once: it issues no request, leaves the job store, the image
\* store and every other call as they are, emits nothing and does not
\* raise.
C7_SingleTraversal ==
    /\ [](wired = "simple" => \A j \in JobIds : Cardinality(Traversing(j)) <= 1)
    /\ [][\A c \in Calls, j \in JobIds :
            (/\ wired = "simple"
             /\ crawls[c].pc = "idle"
             /\ crawls'[c].pc # "idle"
             /\ crawls'[c].jobId = j
             /\ activeJobs[j]) =>
                /\ crawls'[c] = DoneCall(j, "returned")
                /\ \A d \in Calls \ {c} : crawls'[d] = crawls[d]
                /\ jobs' = jobs
                /\ crawledImages' = crawledImages
                /\ activeJobs' = activeJobs
                /\ \A i \in JobIds : emitted'[i] = <<>>]_vars

\* C7, its case: startCrawl has returned at the guard while the other call
\* waits for a response
C7_Witness ==
    \E c, d \in Calls :
        /\ wired = "simple"
        /\ event = Event(c, "StartCrawl", "active")
        /\ crawls[c] = DoneCall(crawls[d].jobId, "returned")
        /\ crawls[d].pc = "fetch"

\* C8: a stored job with status completed has progress 100, no current
\* page and its completion time.
C8_CompletedRecord ==
    \A j \in JobIds :
        (jobs[j] # NoJob /\ jobs[j].status = "completed") =>
            /\ jobs[j].progress = 100
            /\ jobs[j].currentPage = NullUrl
            /\ jobs[j].completedAt = "date"

\* C9: when the seed URL cannot be parsed or an exception leaves the loop
\* the job is stored as failed with the message of the exception and a
\* completion time, and the snapshot emitted last has status failed and
\* that message; with a malformed seed no request is made and no image
\* record exists for the job.
C9_FailedJob ==
    /\ \A c \in SimpleCrawls :
         LET st == crawls[c]
             j == st.jobId
         IN  /\ st.pc = "catch" =>
                  /\ st.error # "null"
                  /\ jobs[j].status = "failed"
                  /\ jobs[j].error = st.error
                  /\ jobs[j].completedAt = "date"
             /\ ~NewURL(st.job.targetUrl).ok =>
                  /\ st.pc \in {"getCrawlJob", "running", "catch"}
                  /\ st.requests = 0
    /\ \A c \in Calls :
         (wired = "simple" /\ event.call = c /\ event.step = "FailedSaved") =>
            LET j == crawls[c].jobId
            IN  /\ emitted[j] = <<FailedSnap(event.outcome)>>
                /\ event.outcome # "null"
                /\ jobs[j] # NoJob =>
                     /\ jobs[j].status = "failed"
                     /\ jobs[j].error = event.outcome
                     /\ jobs[j].completedAt = "date"
    /\ \A i \in 1..Len(crawledImages) :
         LET j == crawledImages[i].jobId
         IN  wired = "simple" => NewURL(jobs[j].targetUrl).ok

\* C9, its case: a job with a malformed seed URL has failed and its failed
\* snapshot was emitted
C9_Witness ==
    \E c \in Calls :
        /\ wired = "simple"
        /\ event = Event(c, "FailedSaved", "Invalid URL")
        /\ jobs[crawls[c].jobId].status = "failed"

\* C10: when the third attempt for a page times out after two timeouts,
\* no image record was or is created for the page, pagesProcessed does not
\* grow, and if no unvisited URL is left in the queue the job is stored as
\* completed in the same step.
C10_TimedOutPage ==
    [][\A c \in Calls :
          LET a == crawls[c]
              b == crawls'[c]
          IN  (/\ wired = "simple"
               /\ a.pc = "fetch"
               /\ a.retryCount = 2
               /\ a.onlyTimeouts
               /\ b # a
               /\ event' = Event(c, "FetchDone", "abort")) =>
                 /\ a.saved = 0
                 /\ crawledImages' = crawledImages
                 /\ b.pagesProcessed <= a.pagesProcessed
                 /\ jobs'[a.jobId].pagesProcessed <= jobs[a.jobId].pagesProcessed
                 /\ (\A i \in 1..Len(a.urlsToVisit) : a.urlsToVisit[i] \in a.visitedUrls)
                       => /\ b.pc = "completed"
                          /\ jobs'[a.jobId].status = "completed"]_vars

\* C10, its case: the last URL of the queue timed out three times and the
\* job is stored as completed
C10_Witness ==
    \E c \in SimpleCrawls :
        /\ event = Event(c, "FetchDone", "abort")
        /\ crawls[c].pc = "completed"
        /\ crawls[c].requests = 3
        /\ crawls[c].onlyTimeouts
        /\ jobs[crawls[c].jobId].status = "completed"

\* A step of call c ends the processing of the URL it took from the queue:
\* the page was fetched and its images and links were handled, or the last
\* of the attempts failed
PageSucceeded(c) ==
    /\ crawls[c].pc \in {"text", "saveImage"}
    /\ crawls'[c].pc = "progress"

PageGivenUp(c) ==
    /\ crawls[c].pc \in {"fetch", "text"}
    /\ crawls[c].retryCount = maxRetries
    /\ crawls'[c] # crawls[c]
    /\ event'.call = c
    /\ event'.outcome \in Failures

\* C11: the pagesProcessed counter of a crawl grows by exactly one in the
\* step that ends the processing of a dequeued URL, be it by a successful
\* fetch and extraction or by the failure of the last attempt, and it grows
\* in no other step.
C11_CountsConcludedPages ==
    [][\A c \in Calls :
          LET a == crawls[c]
              b == crawls'[c]
          IN  wired = "simple" =>
                IF PageSucceeded(c) \/ PageGivenUp(c)
                THEN b.pagesProcessed = a.pagesProcessed + 1
                ELSE b.pagesProcessed <= a.pagesProcessed]_vars

\* C12: a job with a budget of one page whose seed page was fetched and
\* links to further pages of its origin completes with pagesProcessed 1 and
\* with a totalPagesFound, in the store and in the final snapshot, that
\* counts the visited URLs plus the URLs still queued.
C12_CompletedCountsQueued ==
    [][\A c \in Calls :
          LET a == crawls[c]
              b == crawls'[c]
              found == Cardinality(a.visitedUrls) + Len(a.urlsToVisit)
          IN  (/\ wired = "simple"
               /\ a.pc = "completed"
               /\ b # a
               /\ a.job.maxPages = 1
               /\ a.pagesProcessed = 1) =>
                 /\ jobs[a.jobId].status = "completed"
                 /\ jobs[a.jobId].pagesProcessed = 1
                 /\ jobs[a.jobId].totalPagesFound = found
                 /\ \A i \in 1..Len(emitted'[a.jobId]) :
                        /\ emitted'[a.jobId][i].pagesProcessed = 1
                        /\ emitted'[a.jobId][i].totalPagesFound = found]_vars

\* C13: a job requested with includeCssBackgrounds false never gets an image
\* record that stems from a background-image declaration.
C13_NoCssBackgroundRecord ==
    \A i \in 1..Len(crawledImages) : crawledImages[i].imgTagHtml # "css"

\* C14: the image records of a job hold at most one record for a pair of
\* page URL and image URL, also after a page was processed again (by a
\* retry or by another crawl of the job).
C14_OneRecordPerPageAndImage ==
    \A i, k \in 1..Len(crawledImages) :
        (/\ crawledImages[i].jobId = crawledImages[k].jobId
         /\ crawledImages[i].pageUrl = crawledImages[k].pageUrl
         /\ crawledImages[i].imageUrl = crawledImages[k].imageUrl) => i = k

\* C15: the imageUrl of every image record is an absolute URL, the result
\* of a successful resolution of the reference against the page URL; a
\* reference that does not resolve leaves no record.
C15_RecordsHoldAbsoluteUrls ==
    \A i \in 1..Len(crawledImages) : NewURL(crawledImages[i].imageUrl).ok

\* C16: decodeHtmlEntities is idempotent: decoding a decoded text gives the
\* decoded text again.
C16_DecodeIdempotent ==
    Len(decoding.outputs) = 2 => decoding.outputs[2] = decoding.outputs[1]

\* C17: the snapshots a crawl passes to the progress listener of its job,
\* from the first running snapshot to the completed or failed one, carry
\* pagesProcessed values that never go down: each snapshot carries at least
\* the count the crawl had reached before the step, and at least the count
\* of the snapshot before it.
C17_SnapshotsCountUp ==
    [][\A c \in Calls :
          LET a == crawls[c]
              b == crawls'[c]
              snaps == emitted'[a.jobId]
          IN  (/\ wired = "simple"
               /\ a.job # NoJob
               /\ b # a
               /\ progressListeners[a.jobId] # NoListener) =>
                 \A i \in 1..Len(snaps) :
                     /\ snaps[i].pagesProcessed >= a.pagesProcessed
                     /\ i > 1 => snaps[i].pagesProcessed >= snaps[i - 1].pagesProcessed]_vars

\* The store holds a record of job j for image imageUrl of page pageUrl
HasRecord(j, pageUrl, imageUrl) ==
    \E i \in 1..Len(crawledImages) :
        /\ crawledImages[i].jobId = j
        /\ crawledImages[i].pageUrl = pageUrl
        /\ crawledImages[i].imageUrl = imageUrl

\* C18: when a crawl counts a page into pagesProcessed and writes that count
\* to the job store (every later update and snapshot carries it), the image
\* records of all images extracted from the page are already in the store,
\* and the step itself creates none.
C18_ImagesBeforeCount ==
    [][\A c \in Calls :
          LET a == crawls[c]
              b == crawls'[c]
          IN  (/\ wired = "simple"
               /\ b.pagesProcessed > a.pagesProcessed) =>
                 /\ jobs'[a.jobId].pagesProcessed = b.pagesProcessed
                 /\ crawledImages' = crawledImages
                 /\ a.next = Len(a.images)
                 /\ \A i \in 1..Len(a.images) :
                        HasRecord(a.jobId, a.currentUrl, a.images[i].imageUrl)]_vars

\* C18, its case: the page just counted had an image, and the record is there
C18_Witness ==
    \E c \in SimpleCrawls :
        /\ event.call = c
        /\ event.step = "ImageSaved"
        /\ crawls[c].pc = "progress"
        /\ crawls[c].pagesProcessed = 1
        /\ jobs[crawls[c].jobId].pagesProcessed = 1
        /\ crawls[c].saved = 1
        /\ \E i \in 1..Len(crawledImages) :
               /\ crawledImages[i].jobId = crawls[c].jobId
               /\ crawledImages[i].pageUrl = crawls[c].currentUrl

\* C19: while the stored status of a job crawled by SimpleCrawlerService is
\* running, the progress in the store and in the running snapshots is an
\* integer from 0 to 100 and does not go down: no step lowers the stored
\* progress, and no snapshot carries less than the store held before.
C19_ProgressMonotone ==
    [][\A j \in JobIds :
          (/\ wired = "simple"
           /\ jobs[j] # NoJob
           /\ jobs[j].status = "running"
           /\ jobs'[j].status = "running") =>
             /\ jobs'[j].progress \in 0..100
             /\ jobs'[j].progress >= jobs[j].progress
             /\ \A i \in 1..Len(emitted'[j]) :
                    emitted'[j][i].status = "running" =>
                      /\ emitted'[j][i].progress \in 0..100
                      /\ emitted'[j][i].progress >= jobs[j].progress]_vars

\* C20: every stored state of a job and every snapshot emitted for it has a
\* totalPagesFound that is at least its pagesProcessed.
C20_FoundCoversProcessed ==
    \A j \in JobIds :
        /\ jobs[j] # NoJob => jobs[j].totalPagesFound >= jobs[j].pagesProcessed
        /\ wired = "simple" =>
             \A i \in 1..Len(emitted[j]) :
                 emitted[j][i].totalPagesFound >= emitted[j][i].pagesProcessed

\* C20, its case: a running snapshot is emitted after the first page was
\* counted, while URLs are still queued
C20_Witness ==
    \E c \in SimpleCrawls :
        LET j == crawls[c].jobId
        IN  /\ event = Event(c, "ProgressSaved", "saved")
            /\ jobs[j].status = "running"
            /\ jobs[j].pagesProcessed = 1
            /\ jobs[j].totalPagesFound = 2
            /\ Len(emitted[j]) = 1
            /\ emitted[j][1].pagesProcessed = 1
            /\ emitted[j][1].totalPagesFound = 2

\* C21: a step of a crawl of one job leaves everything that belongs to
\* another job as it is (the other job's stored record, its activity flag,
\* its image records, the locals of its crawl), hands the other job's
\* listener no snapshot, and fails on a listener only when the listener of
\* its own job is registered.
C21_JobsIsolated ==
    [][\A c \in Calls :
          LET a == crawls[c]
              b == crawls'[c]
              j == b.jobId
          IN  (wired = "simple" /\ b # a) =>
                /\ a.pc # "idle" => a.jobId = j
                /\ \A d \in Calls \ {c} : crawls'[d] = crawls[d]
                /\ \A k \in JobIds \ {j} :
                       /\ jobs'[k] = jobs[k]
                       /\ activeJobs'[k] = activeJobs[k]
                       /\ emitted'[k] = <<>>
                /\ \/ crawledImages' = crawledImages
                   \/ /\ Len(crawledImages') = Len(crawledImages) + 1
                      /\ SubSeq(crawledImages', 1, Len(crawledImages)) = crawledImages
                      /\ crawledImages'[Len(crawledImages')].jobId = j
                /\ (b.error = "listener failed" /\ a.error # "listener failed")
                      => progressListeners[j] # NoListener]_vars

\* C21, its case: the crawls of two jobs are under way at the same time,
\* each has counted a page and stored an image, and only one has a listener
C21_Witness ==
    /\ wired = "simple"
    /\ crawls[1].jobId = "j1" /\ crawls[1].pc = "fetch" /\ crawls[1].pagesProcessed = 1
    /\ crawls[2].jobId = "j0" /\ crawls[2].pc = "fetch" /\ crawls[2].pagesProcessed = 1
    /\ progressListeners["j1"] = "sendProgress"
    /\ event.call = 2
    /\ emitted["j0"] # <<>>
    /\ \E i, k \in 1..Len(crawledImages) :
           crawledImages[i].jobId = "j1" /\ crawledImages[k].jobId = "j0"

\* C22: whether the progress listener of a job is removed or left in place
\* makes no difference to the traversal: adding or removing a listener
\* changes nothing but the listener table, and no crawl is ended by the
\* listener that was left in place.
C22_ListenerLeavesTraversalAlone ==
    [][/\ progressListeners' # progressListeners =>
             UNCHANGED <<jobs, crawledImages, activeJobs, crawls>>
       /\ \A c \in Calls :
             (wired = "simple" /\ crawls'[c] # crawls[c]) =>
                 crawls'[c].error # "listener failed"]_vars

\* C23: a job id has at most one registered listener, the one added last,
\* and a snapshot is handed to that listener alone: when a crawl emits a
\* snapshot, the call fails exactly when the listener registered at that
\* moment is the one that throws, whatever was registered before.
C23_LastListenerOnly ==
    [][/\ \A j \in JobIds : progressListeners'[j] \in Listeners \cup {NoListener}
       /\ \A c \in Calls :
             LET a == crawls[c]
                 b == crawls'[c]
                 thrown == IF a.pc = "catch" THEN b.result = "rejected"
                           ELSE b.pc = "catch" /\ b.error = "listener failed"
             IN  (/\ wired = "simple"
                  /\ b # a
                  /\ a.jobId \in JobIds
                  /\ emitted'[a.jobId] # <<>>) =>
                     (thrown <=> progressListeners[a.jobId] = "throws")]_vars

\* C23, its case: the listener that throws was called in an earlier crawl
\* of the job, sendProgress is registered now, and a snapshot was just
\* emitted without a failure
C23_Witness ==
    \E c \in SimpleCrawls :
        /\ jobs[crawls[c].jobId].error = "listener failed"
        /\ progressListeners[crawls[c].jobId] = "sendProgress"
        /\ event = Event(c, "CrawlBegin", "entered")
        /\ emitted[crawls[c].jobId] # <<>>
        /\ crawls[c].pc = "fetch"

\* The place of the first <a href> of the page just read that yields url
FirstAt(url) ==
    CHOOSE i \in 1..Len(frontier.links) :
        /\ LinkOf(frontier.links[i], frontier.currentUrl, frontier.baseUrl) = <<url>>
        /\ \A k \in 1..(i - 1) :
               LinkOf(frontier.links[k], frontier.currentUrl, frontier.baseUrl) # <<url>>

\* C24: URLs are requested in exactly the order in which they were first
\* pushed (the URLs pushed so far are those requested so far followed by
\* the queue), and the URLs pushed for one page are in the order in which
\* their links first occur in the page.
C24_FifoDocumentOrder ==
    frontier.pc # "none" =>
        /\ frontier.pushOrder = frontier.fetchOrder \o frontier.urlsToVisit
        /\ \A i, k \in 1..Len(frontier.pushed) :
               /\ \E n \in 1..Len(frontier.links) :
                      LinkOf(frontier.links[n], frontier.currentUrl, frontier.baseUrl)
                        = <<frontier.pushed[i]>>
               /\ i < k => FirstAt(frontier.pushed[i]) < FirstAt(frontier.pushed[k])

\* C24, its case: the seed page linked to /p2 and then to /p1, and the three
\* pages were requested in that order
C24_Witness ==
    /\ frontier.pc = "page"
    /\ frontier.pushOrder = <<Url("https://a", "", ""), Url("https://a", "/p2", ""),
                              Url("https://a", "/p1", "")>>
    /\ frontier.fetchOrder = frontier.pushOrder
    /\ frontier.pagesProcessed = 2

\* C25: every URL that link extraction has put into the queue (all pushed
\* URLs but the seed), and so every URL requested after the seed, has no
\* fragment and a path that does not end in a non-page extension, however
\* the extension is capitalised.
C25_EligibleLinksOnly ==
    frontier.pc # "none" =>
        /\ \A i \in 2..Len(frontier.pushOrder) :
               /\ frontier.pushOrder[i].frag = ""
               /\ frontier.pushOrder[i].path \notin {"/a.png", "/b.pdf", "/B.PDF"}
        /\ \A i \in 2..Len(frontier.fetchOrder) :
               /\ frontier.fetchOrder[i].frag = ""
               /\ frontier.fetchOrder[i].path \notin {"/a.png", "/b.pdf", "/B.PDF"}

\* C25, its case: a page with a link to /B.PDF and a link to /p1#s was read,
\* and only https://a/p1 was pushed
C25_Witness ==
    /\ frontier.pc = "loop"
    /\ frontier.links = <<Url("", "/B.PDF", ""), Url("", "/p1", "#s")>>
    /\ frontier.pushed = <<Url("https://a", "/p1", "")>>

\* C26: once the stored status of a job is completed or failed, no step of
\* the crawl service changes a field of the stored job, creates an image
\* record for it or requests a page for it.
C26_TerminalJobUntouched ==
    [][\A j \in JobIds :
          (/\ wired = "simple"
           /\ jobs[j] # NoJob
           /\ jobs[j].status \in {"completed", "failed"}) =>
             /\ jobs'[j] = jobs[j]
             /\ \A i \in 1..Len(crawledImages') :
                    crawledImages'[i].jobId = j => i <= Len(crawledImages)
             /\ \A c \in Calls :
                    (crawls'[c].jobId = j /\ crawls'[c].pc = "fetch")
                        => crawls'[c].requests = crawls[c].requests]_vars

\* C27: every job whose crawl was started eventually has the stored status
\* completed or failed, whatever the server does, a server that stops
\* sending in the middle of a response included.
C27_EveryJobEnds ==
    (started >= 1) ~> (jobs["j1"].status \in {"completed", "failed"})

\* C28: a startCrawl call that found no job under its id ends by rejecting
\* (the caller is told that the job was not found); it has requested no
\* page, and the store holds neither a job nor an image record under the id.
C28_AbsentJobNotFound ==
    [][\A c \in Calls :
          LET a == crawls[c]
              b == crawls'[c]
          IN  (/\ b # a
               /\ b.pc = "done"
               /\ event' = Event(c, event'.step, "Job not found")) =>
                 /\ b.result = "rejected"
                 /\ a.requests = 0
                 /\ jobs'[b.jobId] = NoJob
                 /\ \A i \in 1..Len(crawledImages') :
                        crawledImages'[i].jobId # b.jobId]_vars

\* C29: the raw markup of every image record is at most 400 characters long
\* and holds neither a newline nor a carriage return.
C29_MarkupBounded ==
    \A i \in 1..Len(crawledImages) :
        /\ MarkupLength(crawledImages[i].imgTagHtml) <= 400
        /\ ~HasNewline(crawledImages[i].imgTagHtml)

\* C30: whenever the traversal loop is at the start of an iteration, the
\* queue holds no URL twice and no URL of the visited set, and the branch
\* that skips a dequeued URL because it was visited has never been taken.
C30_QueueHoldsNewUrlsOnce ==
    frontier.pc = "loop" =>
        /\ \A i, k \in 1..Len(frontier.urlsToVisit) :
               frontier.urlsToVisit[i] = frontier.urlsToVisit[k] => i = k
        /\ \A i \in 1..Len(frontier.urlsToVisit) :
               frontier.urlsToVisit[i] \notin frontier.visitedUrls
        /\ ~frontier.skipped

\* C30, its case: a page that links twice to /p1 and a page that links to
\* a page already visited were read, and /p1 is queued once
C30_Witness ==
    /\ frontier.pc = "loop"
    /\ frontier.links = <<Url("", "/p1", "#s"), Url("", "/p1", "#s")>>
    /\ frontier.pushed = <<Url("https://a", "/p1", "")>>
    /\ frontier.urlsToVisit = <<Url("https://a", "/p2", ""), Url("https://a", "/p1", "")>>
    /\ Cardinality(frontier.visitedUrls) = 2

\* ------------------------------------ CrawlerService started twice
\* Two startCrawl invocations of CrawlerService for the job j1, the second
\* made at any moment of the first; the site has the pages / and /p1
InitTwoStarts ==
    /\ wired = "puppeteer"
    /\ jobs = [j \in JobIds |->
                 IF j = "j1"
                 THEN createCrawlJob([targetUrl |-> Url("https://a", "/", ""),
                                      maxPages |-> 1,
                                      includeCssBackgrounds |-> TRUE])
                 ELSE NoJob]
    /\ crawledImages = <<>>
    /\ activeJobs = [j \in JobIds |-> FALSE]
    /\ activeCrawls = [j \in JobIds |-> FALSE]
    /\ progressListeners = [j \in JobIds |-> NoListener]
    /\ crawls = [c \in Calls |-> IdleCall]
    /\ started = 0
    /\ streams = NoStreams
    /\ emitted = [j \in JobIds |-> <<>>]
    /\ event = Event(0, "none", "none")
    /\ decoding = NoText
    /\ frontier = NoFrontier

NextTwoStarts ==
    \/ \E c \in Calls : PStartCrawl(c, "j1")
    \/ \E c \in Calls : PGetCrawlJobDone(c)
    \/ \E c \in Calls : PRunningSaved(c)
    \/ \E c \in Calls, ok \in BOOLEAN : PLaunchDone(c, ok)
    \/ \E c \in Calls, ok \in BOOLEAN : PNewPageDone(c, ok)
    \/ \E c \in Calls : PFound1Saved(c)
    \/ \E c \in Calls, ok \in BOOLEAN : PGotoDone(c, ok)
    \/ \E c \in Calls : PProgressSaved(c)
    \/ \E c \in Calls, hrefs \in LinksTwoJobs : PLinksDone(c, hrefs)
    \/ \E c \in Calls : PFoundSaved(c)
    \/ \E c \in Calls, imgs \in ImgLists : PImagesDone(c, imgs)
    \/ \E c \in Calls : PEvaluateFailed(c)
    \/ \E c \in Calls : PImageSaved(c)
    \/ \E c \in Calls : PCountDone(c)
    \/ \E c \in Calls : PImagesFoundSaved(c)
    \/ \E c \in Calls : PCloseDone(c)
    \/ \E c \in Calls : PCompletedSaved(c)
    \/ \E c \in Calls : PFailedSaved(c)

SpecTwoStarts == InitTwoStarts /\ [][NextTwoStarts]_vars

\* The invocation c is inside performCrawl: between the call of
\* puppeteer.launch and the return of browser.close
PPerforming(c) ==
    crawls[c].pc \in {"p_launch", "p_newPage", "p_found1", "p_goto", "p_progress",
                      "p_links", "p_found", "p_images", "p_saveImage", "p_count",
                      "p_imagesFound", "p_close"}

\* C31: in CrawlerService two startCrawl invocations for one job id are
\* never inside performCrawl at the same time, and a browser is never open
\* for both
C31_OnePerformCrawl ==
    \A c, d \in Calls :
        (c # d /\ crawls[c].jobId = crawls[d].jobId)
            => ~(PPerforming(c) /\ PPerforming(d))

\* C32: when the progress update of a processed page has resolved and the
\* next URL is requested, that step has emitted a snapshot carrying the
\* values just stored: same progress, pagesProcessed, totalPagesFound and
\* imagesFound, and currentPage the URL that was just processed.
C32_SnapshotOfProcessedPage ==
    [][\A c \in Calls :
         LET a == crawls[c]
             b == crawls'[c]
             stored == ProgressUpdate(a)
         IN  (a.pc = "progress" /\ b # a /\ b.pc = "fetch")
             => \E i \in 1..Len(emitted'[a.jobId]) :
                  LET s == emitted'[a.jobId][i]
                  IN  /\ s.currentPage = a.currentUrl
                      /\ s.progress = stored.progress
                      /\ s.pagesProcessed = stored.pagesProcessed
                      /\ s.totalPagesFound = stored.totalPagesFound
                      /\ s.imagesFound = stored.imagesFound]_vars

\* C33: when an attempt for a page fails and it was failed attempt number k
\* of that page (every request made for the page so far has failed), the
\* retry is preceded by a wait of 2000 * k ms after a timeout and of
\* 1000 * k ms after a non-2xx status or another error, for k = 1, 2; after
\* the third failed attempt no wait is started.
C33_BackoffDelays ==
    [][\A c \in Calls :
         LET a == crawls[c]
             b == crawls'[c]
             k == a.requests
             failed == \/ event'.step = "TextFailed"
                       \/ /\ event'.step = "FetchDone"
                          /\ event'.outcome \in {"status", "abort", "error"}
         IN  (b # a /\ a.pc \in {"fetch", "text"} /\ event'.call = c /\ failed)
             => IF k <= 2
                THEN /\ b.pc = "backoff"
                     /\ b.delay = (IF event'.outcome = "abort" THEN 2000 ELSE 1000) * k
                ELSE /\ b.pc # "backoff"
                     /\ b.delay = 0]_vars

\* C33, its case: the second failed attempt of a page was a timeout, the
\* first one was not, and the wait of 4000 ms before the last attempt runs
C33_Witness ==
    \E c \in Calls :
        /\ crawls[c].pc = "backoff"
        /\ crawls[c].requests = 2
        /\ crawls[c].delay = 4000
        /\ ~crawls[c].onlyTimeouts

\* ------------------------------------ CrawlerService, larger budgets
\* One job crawled by CrawlerService, with maxPages up to MaxBudget + 1
InitWideBudget ==
    /\ wired = "puppeteer"
    /\ \E t \in TargetUrls, m \in 1..(MaxBudget + 1) :
         jobs = [j \in JobIds |->
                   IF j = "j1"
                   THEN createCrawlJob([targetUrl |-> t, maxPages |-> m,
                                        includeCssBackgrounds |-> TRUE])
                   ELSE NoJob]
    /\ crawledImages = <<>>
    /\ activeJobs = [j \in JobIds |-> FALSE]
    /\ activeCrawls = [j \in JobIds |-> FALSE]
    /\ progressListeners = [j \in JobIds |-> NoListener]
    /\ crawls = [c \in Calls |-> IdleCall]
    /\ started = 0
    /\ streams = NoStreams
    /\ emitted = [j \in JobIds |-> <<>>]
    /\ event = Event(0, "none", "none")
    /\ decoding = NoText
    /\ frontier = NoFrontier

SpecWideBudget == InitWideBudget /\ [][NextPuppeteer]_vars

\* C34: during a crawl by CrawlerService no step lowers the progress held
\* in the job store, and no payload emitted with a progress carries less
\* than the store held before the step.
C34_PuppeteerProgressMonotone ==
    [][\A j \in JobIds :
          (wired = "puppeteer" /\ jobs[j] # NoJob) =>
             /\ jobs'[j].progress >= jobs[j].progress
             /\ \A i \in 1..Len(emitted'[j]) :
                    "progress" \in DOMAIN emitted'[j][i] =>
                        emitted'[j][i].progress >= jobs[j].progress]_vars

\* C35: the pages for which the traversal loop of SimpleCrawlerService has
\* issued a request are never more than maxPages.
C35_RequestedPagesWithinBudget ==
    frontier.pc # "none" =>
        Cardinality({ PageOf(frontier.fetchOrder[i]) :
                        i \in 1..Len(frontier.fetchOrder) })
            <= frontier.job.maxPages

\* --------------------------------------------------- progress streams
\* GET /api/crawl/:id/progress, the handler up to its end: the job is read
\* for the initial message, which is written when that promise resolves,
\* and sendProgress of this response is registered for the job
Connect(s, j) ==
    /\ wired = "simple"
    /\ streams[s].pc = "none"
    /\ streams' = [streams EXCEPT ![s] =
         [pc |-> "open", jobId |-> j,
          initial |-> IF jobs[j] = NoJob THEN "none" ELSE jobs[j].status,
          received |-> {}]]
    /\ progressListeners' = [progressListeners EXCEPT ![j] = s]
    /\ UNCHANGED <<wired, decoding, frontier, activeCrawls, jobs, crawledImages,
                   activeJobs, crawls, started, emitted, event>>

\* The promise of storage.getCrawlJob of the handler has resolved: the
\* initial message is written
InitialSent(s) ==
    /\ streams[s].pc = "open"
    /\ streams[s].initial # "none"
    /\ streams' = [streams EXCEPT ![s].received = @ \cup {streams[s].initial},
                                  ![s].initial = "none"]
    /\ UNCHANGED <<wired, decoding, frontier, activeCrawls, jobs, crawledImages,
                   activeJobs, progressListeners, crawls, started, emitted, event>>

\* The `close` event of the request: the listener registered for the job is
\* removed and the response is ended; nothing reaches the client afterwards
Disconnect(s) ==
    /\ streams[s].pc = "open"
    /\ streams' = [streams EXCEPT ![s].pc = "closed", ![s].initial = "none"]
    /\ progressListeners' = [progressListeners EXCEPT ![streams[s].jobId] = NoListener]
    /\ UNCHANGED <<wired, decoding, frontier, activeCrawls, jobs, crawledImages,
                   activeJobs, crawls, started, emitted, event>>

\* The job j1 was submitted, for any of the targetUrl values
InitStreams ==
    /\ wired = "simple"
    /\ \E t \in TargetUrls :
         jobs = [j \in JobIds |->
                   IF j = "j1"
                   THEN createCrawlJob([targetUrl |-> t, maxPages |-> 1,
                                        includeCssBackgrounds |-> TRUE])
                   ELSE NoJob]
    /\ crawledImages = <<>>
    /\ activeJobs = [j \in JobIds |-> FALSE]
    /\ activeCrawls = [j \in JobIds |-> FALSE]
    /\ progressListeners = [j \in JobIds |-> NoListener]
    /\ crawls = [c \in Calls |-> IdleCall]
    /\ started = 0
    /\ streams = NoStreams
    /\ emitted = [j \in JobIds |-> <<>>]
    /\ event = Event(0, "none", "none")
    /\ decoding = NoText
    /\ frontier = NoFrontier

\* The steps of the crawl of j1
CrawlOfStreams(c) ==
    \/ GetCrawlJobDone(c)
    \/ CrawlBegin(c)
    \/ \E o \in {"ok", "error"} : FetchDone(c, o)
    \/ \E html \in HtmlsTwoJobs : TextDone(c, html)
    \/ TextFailed(c)
    \/ \E links \in LinksTwoJobs : ImageSaved(c, links)
    \/ ProgressSaved(c)
    \/ BackoffDone(c)
    \/ CompletedSaved(c)
    \/ FailedSaved(c)

\* Two clients open and close the stream of j1 while j1 is crawled
NextStreams ==
    \/ StartCrawl(1, "j1")
    \/ CrawlOfStreams(1)
    \/ \E s \in Subscribers : Connect(s, "j1")
    \/ \E s \in Subscribers : InitialSent(s)
    \/ \E s \in Subscribers : Disconnect(s)

SpecStreams == InitStreams /\ [][NextStreams]_vars

\* One client opens the stream of j1 and keeps it open; startCrawl is
\* called for j1 by POST /api/crawl, the promises of the crawl settle and
\* the initial message is written
NextOneStream ==
    \/ StartCrawl(1, "j1")
    \/ CrawlOfStreams(1)
    \/ Connect("A", "j1")
    \/ InitialSent("A")

SpecOneStream ==
    /\ InitStreams
    /\ [][NextOneStream]_vars
    /\ WF_vars(StartCrawl(1, "j1"))
    /\ WF_vars(CrawlOfStreams(1))
    /\ WF_vars(InitialSent("A"))

\* C36: when a subscriber disconnects while another subscriber of the same
\* job stays connected and has its listener registered, that listener is
\* still registered afterwards.
C36_DisconnectKeepsOthers ==
    [][\A s, t \in Subscribers :
         (/\ s # t
          /\ streams[s].pc = "open" /\ streams'[s].pc = "open"
          /\ streams[t].pc = "open" /\ streams'[t].pc = "closed"
          /\ streams[s].jobId = streams[t].jobId
          /\ progressListeners[streams[s].jobId] = s)
         => progressListeners'[streams[s].jobId] = s]_vars

\* C37: a subscriber that has connected to the stream of j1 and stays
\* connected is eventually sent a message with status completed or failed.
C37_TerminalMessageArrives ==
    (streams["A"].pc = "open")
        ~> (streams["A"].received \cap {"completed", "failed"} # {})

\* C37, its cases: the subscriber connected while the job was pending, while
\* it was running, or after it ended, and has received the terminal message
C37_Witness ==
    /\ streams["A"].pc = "open"
    /\ streams["A"].initial = "none"
    /\ "running" \in streams["A"].received
    /\ "completed" \in streams["A"].received

\* C38: whenever the stored status of a job crawled by SimpleCrawlerService
\* is completed, its stored imagesFound is the number of image records in
\* the store that carry its job id.
C38_CompletedCountsRecords ==
    \A j \in JobIds :
        (wired = "simple" /\ jobs[j] # NoJob /\ jobs[j].status = "completed")
            => jobs[j].imagesFound = ImagesOfJob(crawledImages, j)

\* C39: once performCrawl of CrawlerService has returned or thrown, the
\* browser it launched is not open any more.
C39_BrowserClosed ==
    \A c \in Calls :
        crawls[c].pc \in {"p_completed", "p_catch", "done"}
            => crawls[c].browser # "open"

====
